---- MODULE Spec2Model ----
(***************************************************************************)
(* Media Kraken: the import pipeline of the Media service                  *)
(* (src/src/services/Media.ts) and the worker-backed catalog loader        *)
(* loadMedia (src/unnamed/part_000).                                       *)
(*                                                                         *)
(* Every await of the code is a point where the model lets other handlers  *)
(* run: an action is the synchronous stretch of code between two awaits.   *)
(***************************************************************************)
EXTENDS Integers, Sequences, FiniteSets, TLC

\* ---------------------------------------------------------------- bounds

\* Longest batch handed to importMovies.
MaxBatch == 3

\* Invocations of importMovies whose locals the model keeps (call frames).
MaxFrames == 2

\* Most progress messages a worker posts in one run.
MaxMessages == 3

\* The resolver calls of a session.
MaxCalls == 2

\* The statements of an index document.
MaxStatements == 6

\* ------------------------------------------------------------ value space

\* Raw records of an import file; the title is what identifies a movie.
Titles == {"A", "B"}

Frames == 1..MaxFrames

\* null / undefined, and a present value: an optional is a sequence of
\* length 0 or 1.
NULL == <<>>

Some(v) == <<v>>

\* Locations of documents in the user's storage.
ContainerUrl == "/movies/"

DocumentUrls == {"/movies/a", "/movies/b"}

\* new MediaContainer(attributes, true): the "movies" relation is not loaded.
NewMediaContainer(attributes) == [url |-> attributes, movies |-> NULL]

\* model.setRelationModels(relation, models)
SetRelationModels(model, relation, models) ==
    [model EXCEPT ![relation] = Some(models)]

\* new Movie(attributes, true): the "actions" relation is not loaded.
NewMovie(attributes) == [title |-> attributes, actions |-> NULL]

\* new WatchAction(attributes, true)
NewWatchAction(attributes) == [object |-> attributes]

MovieIs(a, b) == a.title = b.title

\* parser.parse(movieData): a raw record becomes a Movie model.
Parse(movieData) == NewMovie(movieData)

\* Errors.  UnsuitableMediaError is a MediaValidationError.
UnsuitableMediaError ==
    [class |-> "UnsuitableMediaError", reason |-> "not a movie",
     reasons |-> <<"not a movie">>]

MediaValidationError ==
    [class |-> "MediaValidationError", reasons |-> <<"missing title">>]

GenericError == [class |-> "Error"]

TypeError == [class |-> "TypeError"]

UnauthorizedError == [class |-> "UnauthorizedError"]

MalformedDocumentError(documentUrl) ==
    [class |-> "MalformedDocumentError", documentUrl |-> documentUrl]

InstanceOfMediaValidationError(err) ==
    err.class \in {"MediaValidationError", "UnsuitableMediaError"}

InstanceOfUnsuitableMediaError(err) == err.class = "UnsuitableMediaError"

\* What a validator may throw.
ValidateErrors == {UnsuitableMediaError, MediaValidationError, GenericError}

AlreadyInCollection == "You already have this in your collection"

\* Batches: every sequence of raw records of length 0..MaxBatch.
Batches == UNION {[1..n -> Titles] : n \in 0..MaxBatch}

\* ---------------------------------------------------------------- state

VARIABLES
    moviesContainer,  \* state.moviesContainer: NULL or Some([movies |-> ...])
    importOperation,  \* state.importOperation: 0 (null) or the frame whose
                      \* operation object it references
    pc,               \* per frame: where the invocation is suspended
    data,             \* per frame: the batch (parameter data)
    idx,              \* per frame: position of the for-of iterator
    operation,        \* per frame: the ImportOperation object
    log,              \* per frame: the ImportOperationLog
    movie,            \* per frame: the parsed movie of the item in flight
    lastCall,         \* the last call of the public API and how it ended
    loadPc,           \* loadMedia: "idle", "running" (awaiting runner.run),
                      \* "returned" or "thrown"
    error,            \* loadMedia's local error: NULL or Some(error)
    containers,       \* loadMedia's local containers
    worker,           \* the worker of the run: what it has posted so far
    channel,          \* messages posted by the worker, not yet handled
    returned,         \* what loadMedia returned: NULL or Some(containers)
    thrown,           \* what loadMedia threw: NULL or Some(error)
    params,           \* the parameters loadMedia was called with
    mediaPc,          \* Media.load: "idle", "loadMedia" (awaiting loadMedia),
                      \* "initSoukaiEngine" (awaiting it), "loaded", "failed"
    mediaLoaded,      \* whether the call of load has emitted 'media-loaded'
    handled,          \* what the catch block of load did with the error
    storage,          \* Storage, key 'media-kraken-malformed-document-urls':
                      \* NULL (no such key) or Some(list of urls)
    crashReport,      \* the crash report shown with the action 'Ignore this
                      \* document': NULL or Some(error)
    typeIndexUrl,     \* SolidUser.typeIndexUrl: Undefined or Some(url)
    moviesContainerUrl, \* SolidUser.moviesContainerUrl: Undefined, NULL or
                      \* Some(url)
    documents,        \* the user's storage: the statements of each index
                      \* document, by url
    podContainers,    \* the user's storage: the urls of the containers
    calls,            \* per resolver call: its locals and where it is suspended
    lastReturn,       \* the resolver call that ended last, and how
    fetches,          \* how many times an index document has been fetched
    uuids,            \* how many identifiers UUID.generate has produced
    remembered,       \* ModelsCache: the documents remembered, by url, each
                      \* with its date and its models
    clock,            \* the date new Date() gives
    listing           \* the user's storage: the modified date the listing of
                      \* its parent gives for a container, by url

importVars ==
    <<moviesContainer, importOperation, pc, data, idx, operation, log, movie,
      lastCall>>

loaderVars ==
    <<loadPc, error, containers, worker, channel, returned, thrown, params>>

mediaVars == <<mediaPc, mediaLoaded, handled, storage, crashReport>>

resolverVars ==
    <<typeIndexUrl, moviesContainerUrl, documents, podContainers, calls,
      lastReturn, fetches, uuids, remembered, clock, listing>>

\* What the import pipeline, loadMedia and its worker, Media.load and the
\* resolver of SolidUser leave alone.
besidesImport == <<loaderVars, mediaVars, resolverVars>>

besidesLoader == <<importVars, mediaVars, resolverVars>>

besidesResolver == <<importVars, loaderVars, mediaVars>>

vars ==
    <<moviesContainer, importOperation, pc, data, idx, operation, log, movie,
      lastCall, loadPc, error, containers, worker, channel, returned, thrown,
      params, mediaPc, mediaLoaded, handled, storage, crashReport,
      typeIndexUrl, moviesContainerUrl,
      documents, podContainers, calls, lastReturn, fetches, uuids,
      remembered, clock, listing>>

\* ------------------------------------------------------------ Media getters

\* get movies()
Movies ==
    IF moviesContainer = NULL THEN <<>>
    ELSE IF moviesContainer[1].movies = NULL THEN <<>>
    ELSE moviesContainer[1].movies[1]

\* get loaded()
Loaded == moviesContainer # NULL

EmptyLog ==
    [added |-> <<>>, ignored |-> <<>>, invalid |-> <<>>, failed |-> <<>>,
     unprocessed |-> <<>>]

NewOperation(d) == [current |-> 0, total |-> Len(d), cancelled |-> FALSE]

\* A frame is free when no invocation is suspended in it.
Free(r) == pc[r] \in {"idle", "done"}

Active(r) == ~Free(r)

\* The item the for-of loop holds in movieData.
MovieData(r) == data[r][idx[r]]

\* ------------------------------------------------------------- importMovies

\* Mutant of ImportInProgress: the guard is missing.
ImportNeverInProgress == FALSE

\* if (this.state.importOperation) throw ...
ImportInProgress == importOperation # 0

\* Mutant of Slice: the tail is taken one item too late.
SliceAfterNext(d, from) == SubSeq(d, from + 2, Len(d))

\* data.slice(operation.current)
Slice(d, from) == SubSeq(d, from + 1, Len(d))

\* Mutant of EndIteration: the loop ends without setState({importOperation:
\* null}).
EndIterationKeepsOperation(r, newLog) ==
    /\ log' = [log EXCEPT ![r] = newLog]
    /\ movie' = [movie EXCEPT ![r] = NULL]
    /\ IF idx[r] < Len(data[r])
          THEN /\ idx' = [idx EXCEPT ![r] = idx[r] + 1]
               /\ pc' = [pc EXCEPT ![r] = "frame"]
               /\ UNCHANGED importOperation
          ELSE /\ pc' = [pc EXCEPT ![r] = "done"]
               /\ UNCHANGED <<importOperation, idx>>

\* The end of one iteration of the for-of loop (a continue, or the end of
\* the body) with the log as it then is: the next item and its await of the
\* animation frame, or the end of the loop and setState({importOperation:
\* null}).
EndIteration(r, newLog) ==
    /\ log' = [log EXCEPT ![r] = newLog]
    /\ movie' = [movie EXCEPT ![r] = NULL]
    /\ IF idx[r] < Len(data[r])
          THEN /\ idx' = [idx EXCEPT ![r] = idx[r] + 1]
               /\ pc' = [pc EXCEPT ![r] = "frame"]
               /\ UNCHANGED importOperation
          ELSE /\ pc' = [pc EXCEPT ![r] = "done"]
               /\ importOperation' = 0
               /\ UNCHANGED idx

\* importMovies(data, source), up to its first await.
ImportMovies(d) ==
    /\ UNCHANGED besidesImport
    /\ ~ImportInProgress
    /\ \E r \in Frames :
        /\ Free(r)
        /\ \A q \in Frames : q < r => Active(q)
        /\ data' = [data EXCEPT ![r] = d]
        /\ operation' = [operation EXCEPT ![r] = NewOperation(d)]
        /\ log' = [log EXCEPT ![r] = EmptyLog]
        /\ movie' = [movie EXCEPT ![r] = NULL]
        /\ IF Len(d) > 0
              THEN /\ importOperation' = r
                   /\ idx' = [idx EXCEPT ![r] = 1]
                   /\ pc' = [pc EXCEPT ![r] = "frame"]
              ELSE /\ importOperation' = 0
                   /\ idx' = [idx EXCEPT ![r] = 0]
                   /\ pc' = [pc EXCEPT ![r] = "done"]
    /\ lastCall' = "importMovies"
    /\ UNCHANGED moviesContainer

\* importMovies while an import is in progress: throws, nothing else.
ImportMoviesThrows ==
    /\ UNCHANGED besidesImport
    /\ ImportInProgress
    /\ lastCall' = "importMovies:throws"
    /\ UNCHANGED <<moviesContainer, importOperation, pc, data, idx, operation,
                   log, movie>>

\* await Time.waitAnimationFrame() returns: the cancellation check, then
\* operation.current++ and the call of parser.validate.
AnimationFrame(r) ==
    /\ UNCHANGED besidesImport
    /\ pc[r] = "frame"
    /\ IF operation[r].cancelled
          THEN /\ log' = [log EXCEPT ![r].unprocessed =
                                 Slice(data[r], operation[r].current)]
               /\ pc' = [pc EXCEPT ![r] = "done"]
               /\ importOperation' = 0
               /\ UNCHANGED operation
          ELSE /\ operation' = [operation EXCEPT ![r].current = @ + 1]
               /\ pc' = [pc EXCEPT ![r] = "validate"]
               /\ UNCHANGED <<log, importOperation>>
    /\ UNCHANGED <<moviesContainer, data, idx, movie, lastCall>>

\* Mutant of ValidationLog: no branch for UnsuitableMediaError, every
\* MediaValidationError makes the item invalid.
ValidationLogWithoutUnsuitable(l, err, movieData) ==
    IF ~InstanceOfMediaValidationError(err)
       THEN [l EXCEPT !.failed =
                 Append(@, [error |-> err, data |-> movieData])]
    ELSE [l EXCEPT !.invalid =
                 Append(@, [reasons |-> err.reasons, data |-> movieData])]

\* How the catch blocks classify an error thrown by parser.validate.
ValidationLog(l, err, movieData) ==
    IF ~InstanceOfMediaValidationError(err)
       THEN [l EXCEPT !.failed =
                 Append(@, [error |-> err, data |-> movieData])]
    ELSE IF InstanceOfUnsuitableMediaError(err)
       THEN [l EXCEPT !.ignored =
                 Append(@, [reason |-> err.reason, data |-> movieData])]
    ELSE [l EXCEPT !.invalid =
                 Append(@, [reasons |-> err.reasons, data |-> movieData])]

\* await parser.validate(movieData) returns: parser.parse is called.
ValidateResolves(r) ==
    /\ UNCHANGED besidesImport
    /\ pc[r] = "validate"
    /\ pc' = [pc EXCEPT ![r] = "parse"]
    /\ UNCHANGED <<moviesContainer, importOperation, data, idx, operation,
                   log, movie, lastCall>>

\* await parser.validate(movieData) throws.
ValidateRejects(r, err) ==
    /\ UNCHANGED besidesImport
    /\ pc[r] = "validate"
    /\ EndIteration(r, ValidationLog(log[r], err, MovieData(r)))
    /\ UNCHANGED <<moviesContainer, data, operation, lastCall>>

\* Mutant of InCollection: only the first movie of the collection is
\* compared.
InCollectionFirstOnly(m) == Len(Movies) > 0 /\ MovieIs(Movies[1], m)

\* this.movies.find(collectionMovie => collectionMovie.is(movie))
InCollection(m) == \E i \in 1..Len(Movies) : MovieIs(Movies[i], m)

\* Mutant of ParseResolves: the missing attributes are fetched before the
\* collection is searched.
ParseResolvesFetchFirst(r) ==
    /\ pc[r] = "parse"
    /\ movie' = [movie EXCEPT ![r] = Some(Parse(MovieData(r)))]
    /\ pc' = [pc EXCEPT ![r] = "fetch"]
    /\ UNCHANGED <<moviesContainer, importOperation, data, idx, operation,
                   log, lastCall>>
    /\ UNCHANGED besidesImport

\* await parser.parse(movieData) returns: the duplicate check, then the call
\* of movie.fetchMissingAttributes.
ParseResolves(r) ==
    /\ UNCHANGED besidesImport
    /\ pc[r] = "parse"
    /\ LET m == Parse(MovieData(r)) IN
        IF InCollection(m)
           THEN EndIteration(r,
                    [log[r] EXCEPT !.ignored =
                         Append(@, [reason |-> AlreadyInCollection,
                                    data |-> MovieData(r)])])
           ELSE /\ movie' = [movie EXCEPT ![r] = Some(m)]
                /\ pc' = [pc EXCEPT ![r] = "fetch"]
                /\ UNCHANGED <<importOperation, idx, log>>
    /\ UNCHANGED <<moviesContainer, data, operation, lastCall>>

\* Mutant of Failed: the outer catch swallows the error.
FailedSilently(l, err, movieData) == l

\* The outer catch: the item goes to failed with the error.
Failed(l, err, movieData) ==
    [l EXCEPT !.failed = Append(@, [error |-> err, data |-> movieData])]

\* await parser.parse(movieData) throws.
ParseRejects(r, err) ==
    /\ UNCHANGED besidesImport
    /\ pc[r] = "parse"
    /\ EndIteration(r, Failed(log[r], err, MovieData(r)))
    /\ UNCHANGED <<moviesContainer, data, operation, lastCall>>

\* Mutant of FetchResolves: the cancellation flag is looked at within the
\* item, which is dropped with the items after it.
FetchResolvesObservesCancel(r) ==
    /\ UNCHANGED besidesImport
    /\ pc[r] = "fetch"
    /\ IF operation[r].cancelled
          THEN /\ log' = [log EXCEPT ![r].unprocessed =
                                 Slice(data[r], operation[r].current - 1)]
               /\ pc' = [pc EXCEPT ![r] = "done"]
               /\ importOperation' = 0
               /\ movie' = [movie EXCEPT ![r] = NULL]
               /\ UNCHANGED idx
          ELSE IF Loaded
          THEN /\ pc' = [pc EXCEPT ![r] = "save"]
               /\ UNCHANGED <<importOperation, idx, log, movie>>
          ELSE EndIteration(r, Failed(log[r], TypeError, MovieData(r)))
    /\ UNCHANGED <<moviesContainer, data, operation, lastCall>>

\* await movie.fetchMissingAttributes() returns: relatedMovies.save is
\* called, which is a TypeError when there is no container.
FetchResolves(r) ==
    /\ UNCHANGED besidesImport
    /\ pc[r] = "fetch"
    /\ IF Loaded
          THEN /\ pc' = [pc EXCEPT ![r] = "save"]
               /\ UNCHANGED <<importOperation, idx, log, movie>>
          ELSE EndIteration(r, Failed(log[r], TypeError, MovieData(r)))
    /\ UNCHANGED <<moviesContainer, data, operation, lastCall>>

\* await movie.fetchMissingAttributes() throws.
FetchRejects(r, err) ==
    /\ UNCHANGED besidesImport
    /\ pc[r] = "fetch"
    /\ EndIteration(r, Failed(log[r], err, MovieData(r)))
    /\ UNCHANGED <<moviesContainer, data, operation, lastCall>>

\* await relatedMovies.save(movie) returns: the movie is a member of the
\* container, and goes to added.
SaveResolves(r) ==
    /\ UNCHANGED besidesImport
    /\ pc[r] = "save"
    /\ moviesContainer' =
           IF Loaded
              THEN Some(SetRelationModels(moviesContainer[1], "movies",
                                          Append(Movies, movie[r][1])))
              ELSE moviesContainer
    /\ EndIteration(r, [log[r] EXCEPT !.added = Append(@, movie[r][1])])
    /\ UNCHANGED <<data, operation, lastCall>>

\* Mutant of SaveRejects: no catch around the item, the error leaves the
\* loop and importMovies.
SaveRejectsLeavesLoop(r, err) ==
    /\ pc[r] = "save"
    /\ pc' = [pc EXCEPT ![r] = "done"]
    /\ UNCHANGED <<moviesContainer, importOperation, data, idx, operation,
                   log, movie, lastCall>>
    /\ UNCHANGED besidesImport

\* await relatedMovies.save(movie) throws.
SaveRejects(r, err) ==
    /\ UNCHANGED besidesImport
    /\ pc[r] = "save"
    /\ EndIteration(r, Failed(log[r], err, MovieData(r)))
    /\ UNCHANGED <<moviesContainer, data, operation, lastCall>>

\* ------------------------------------------------------------- cancelImport

\* Mutant of RequestCancel: the flag is toggled.
ToggleCancel(op) == [op EXCEPT !.cancelled = ~@]

\* this.importOperation.cancelled = true
RequestCancel(op) == [op EXCEPT !.cancelled = TRUE]

CancelImport ==
    /\ UNCHANGED besidesImport
    /\ IF importOperation = 0
          THEN UNCHANGED operation
          ELSE operation' = [operation EXCEPT
                                 ![importOperation] = RequestCancel(@)]
    /\ lastCall' = "cancelImport"
    /\ UNCHANGED <<moviesContainer, importOperation, pc, data, idx, log,
                   movie>>

\* ---------------------------------------------------------------- loadMedia

\* Progress messages of the worker protocol.
UnauthorizedMessage == [kind |-> "onUnauthorized"]

MoviesContainerLoadedMessage(attributes) ==
    [kind |-> "onMoviesContainerLoaded", attributes |-> attributes]

MovieLoadedMessage(attributes, actionsAttributes) ==
    [kind |-> "onMovieLoaded", attributes |-> attributes,
     actionsAttributes |-> actionsAttributes]

\* Terminal messages: the run's result, or the error that aborted it.
ResultMessage == [kind |-> "result"]

ErrorMessage(e) == [kind |-> "error", error |-> e]

ActionsAttributes == {<<>>, <<"watched">>}

RunErrors == {MalformedDocumentError(u) : u \in DocumentUrls} \cup {GenericError}

NewWorker == [posted |-> 0, containerPosted |-> FALSE, terminated |-> FALSE]

\* loadMedia(...params), up to its await of runner.run.
LoadMedia(ignoredDocumentUrls) ==
    /\ loadPc \in {"idle", "returned", "thrown"}
    /\ loadPc' = "running"
    /\ params' = [ignoredDocumentUrls |-> ignoredDocumentUrls]
    /\ error' = NULL
    /\ containers' = [movies |-> NULL]
    /\ worker' = NewWorker
    /\ channel' = <<>>
    /\ returned' = NULL
    /\ thrown' = NULL
    /\ UNCHANGED <<importVars, resolverVars>>

\* The progress messages the worker may post next: the container-loaded
\* message once, movie-loaded messages only after it, onUnauthorized at any
\* point of the run.
WorkerMayPost(message) ==
    CASE message.kind = "onUnauthorized" -> TRUE
      [] message.kind = "onMoviesContainerLoaded" -> ~worker.containerPosted
      [] message.kind = "onMovieLoaded" -> worker.containerPosted

ProgressMessages ==
    {UnauthorizedMessage, MoviesContainerLoadedMessage(ContainerUrl)} \cup
    {MovieLoadedMessage(t, a) : t \in Titles, a \in ActionsAttributes}

\* The worker posts a progress message.
WorkerPosts(message) ==
    /\ loadPc = "running"
    /\ ~worker.terminated
    /\ worker.posted < MaxMessages
    /\ WorkerMayPost(message)
    /\ worker' = [worker EXCEPT
                      !.posted = @ + 1,
                      !.containerPosted =
                          @ \/ message.kind = "onMoviesContainerLoaded"]
    /\ channel' = Append(channel, message)
    /\ UNCHANGED <<loadPc, error, containers, returned, thrown>>
    /\ UNCHANGED params
    /\ UNCHANGED besidesLoader

\* A document the run was told to ignore.
Ignored(documentUrl) ==
    \E i \in DOMAIN params.ignoredDocumentUrls :
        params.ignoredDocumentUrls[i] = documentUrl

\* The worker posts its terminal message: exactly one, the last of the run.
\* It reads no document it was told to ignore, so none of them is the
\* malformed document of its error.
WorkerTerminates(message) ==
    /\ loadPc = "running"
    /\ ~worker.terminated
    /\ (message.kind = "error"
           /\ message.error.class = "MalformedDocumentError") =>
               ~Ignored(message.error.documentUrl)
    /\ worker' = [worker EXCEPT !.terminated = TRUE]
    /\ channel' = Append(channel, message)
    /\ UNCHANGED <<loadPc, error, containers, returned, thrown>>
    /\ UNCHANGED params
    /\ UNCHANGED besidesLoader

\* The message the runner handles next.
Arrived(kind) == channel # <<>> /\ Head(channel).kind = kind

\* onUnauthorized() { error = new UnauthorizedError; }
OnUnauthorized ==
    /\ Arrived("onUnauthorized")
    /\ error' = Some(UnauthorizedError)
    /\ channel' = Tail(channel)
    /\ UNCHANGED <<loadPc, containers, worker, returned, thrown>>
    /\ UNCHANGED params
    /\ UNCHANGED besidesLoader

\* Mutant of OnMoviesContainerLoaded: the container is built and not kept.
OnMoviesContainerLoadedNotKept ==
    /\ Arrived("onMoviesContainerLoaded")
    /\ channel' = Tail(channel)
    /\ UNCHANGED <<loadPc, error, containers, worker, returned, thrown>>
    /\ UNCHANGED params
    /\ UNCHANGED besidesLoader

\* The container onMoviesContainerLoaded builds.
LoadedContainer(attributes) ==
    SetRelationModels(NewMediaContainer(attributes), "movies", <<>>)

\* onMoviesContainerLoaded(attributes)
OnMoviesContainerLoaded ==
    /\ Arrived("onMoviesContainerLoaded")
    /\ containers' = [containers EXCEPT
                          !.movies = Some(LoadedContainer(Head(channel).attributes))]
    /\ channel' = Tail(channel)
    /\ UNCHANGED <<loadPc, error, worker, returned, thrown>>
    /\ UNCHANGED params
    /\ UNCHANGED besidesLoader

\* The movie onMovieLoaded builds.
LoadedMovie(attributes, actionsAttributes) ==
    SetRelationModels(NewMovie(attributes), "actions",
        [i \in 1..Len(actionsAttributes) |-> NewWatchAction(actionsAttributes[i])])

\* moviesContainer.setRelationModels('movies', [...moviesContainer.movies!, movie])
WithMovie(container, m) ==
    SetRelationModels(container, "movies", Append(container.movies[1], m))

\* Mutant of OnMovieLoaded: the movie is put in the list as constructed, its
\* actions not set.
OnMovieLoadedWithoutActions ==
    /\ Arrived("onMovieLoaded")
    /\ LET message == Head(channel) IN
        containers' =
            IF containers.movies = NULL \/ containers.movies[1].movies = NULL
               THEN containers
               ELSE [containers EXCEPT
                         !.movies = Some(WithMovie(containers.movies[1],
                                             NewMovie(message.attributes)))]
    /\ channel' = Tail(channel)
    /\ UNCHANGED <<loadPc, error, worker, returned, thrown>>
    /\ UNCHANGED params
    /\ UNCHANGED besidesLoader

\* onMovieLoaded(attributes, actionsAttributes).  With containers.movies (or
\* its movies relation) unset the handler throws a TypeError and changes
\* nothing.
OnMovieLoaded ==
    /\ Arrived("onMovieLoaded")
    /\ LET message == Head(channel) IN
        containers' =
            IF containers.movies = NULL \/ containers.movies[1].movies = NULL
               THEN containers
               ELSE [containers EXCEPT
                         !.movies = Some(WithMovie(containers.movies[1],
                                             LoadedMovie(message.attributes,
                                                 message.actionsAttributes)))]
    /\ channel' = Tail(channel)
    /\ UNCHANGED <<loadPc, error, worker, returned, thrown>>
    /\ UNCHANGED params
    /\ UNCHANGED besidesLoader

\* Mutant of RunResolves: the recorded error is not looked at.
RunResolvesIgnoringError ==
    /\ loadPc = "running"
    /\ Arrived("result")
    /\ channel' = Tail(channel)
    /\ loadPc' = "returned"
    /\ returned' = Some(containers)
    /\ UNCHANGED <<error, containers, worker, thrown>>
    /\ UNCHANGED params
    /\ UNCHANGED besidesLoader

\* await runner.run(...params) returns: if (error) throw error; return
\* containers.
RunResolves ==
    /\ loadPc = "running"
    /\ Arrived("result")
    /\ channel' = Tail(channel)
    /\ IF error # NULL
          THEN /\ loadPc' = "thrown"
               /\ thrown' = error
               /\ UNCHANGED returned
          ELSE /\ loadPc' = "returned"
               /\ returned' = Some(containers)
               /\ UNCHANGED thrown
    /\ UNCHANGED <<error, containers, worker>>
    /\ UNCHANGED params
    /\ UNCHANGED besidesLoader

\* await runner.run(...params) throws: the error leaves loadMedia.
RunRejects ==
    /\ loadPc = "running"
    /\ Arrived("error")
    /\ channel' = Tail(channel)
    /\ loadPc' = "thrown"
    /\ thrown' = Some(Head(channel).error)
    /\ UNCHANGED <<error, containers, worker, returned>>
    /\ UNCHANGED params
    /\ UNCHANGED besidesLoader

\* --------------------------------------------------------------- Media.load

\* Storage.get('media-kraken-malformed-document-urls', [])
StoredUrls == IF storage = NULL THEN <<>> ELSE storage[1]

\* load(user), up to its await of loadMedia.
Load ==
    /\ mediaPc \in {"idle", "loaded", "failed"}
    /\ LoadMedia(StoredUrls)
    /\ mediaPc' = "loadMedia"
    /\ mediaLoaded' = FALSE
    /\ handled' = "none"
    /\ UNCHANGED <<storage, crashReport>>

\* await loadMedia(...) returns: load goes on to await user.initSoukaiEngine().
LoadMediaReturns ==
    /\ mediaPc = "loadMedia"
    /\ loadPc = "returned"
    /\ mediaPc' = "initSoukaiEngine"
    /\ UNCHANGED <<mediaLoaded, handled, storage, crashReport>>
    /\ UNCHANGED <<importVars, loaderVars, resolverVars>>

\* The catch block of load: what becomes of the error.
Catch(err) ==
    IF err.class = "UnauthorizedError" THEN "handleUnauthorized"
    ELSE IF err.class = "MalformedDocumentError" THEN "handleMalformedDocument"
    ELSE "throw"

\* handleMalformedDocument(error) sets the crash report, with the action
\* 'Ignore this document'; the other errors set none here.
CrashReported(err) ==
    IF Catch(err) = "handleMalformedDocument" THEN Some(err) ELSE crashReport

\* Mutant of LoadMediaThrows: the containers built so far are committed.
LoadMediaThrowsCommitsContainers ==
    /\ mediaPc = "loadMedia"
    /\ loadPc = "thrown"
    /\ mediaPc' = "failed"
    /\ handled' = Catch(thrown[1])
    /\ crashReport' = CrashReported(thrown[1])
    /\ moviesContainer' = containers.movies
    /\ UNCHANGED <<mediaLoaded, storage>>
    /\ UNCHANGED <<importOperation, pc, data, idx, operation, log, movie,
                   lastCall>>
    /\ UNCHANGED <<loaderVars, resolverVars>>

\* Mutant of LoadMediaThrows: a malformed document is put on the list and
\* the load is tried again, without the user.
LoadMediaThrowsIgnoresAndRetries ==
    /\ mediaPc = "loadMedia"
    /\ loadPc = "thrown"
    /\ IF Catch(thrown[1]) = "handleMalformedDocument"
          THEN /\ storage' = Some(Append(StoredUrls, thrown[1].documentUrl))
               /\ LoadMedia(Append(StoredUrls, thrown[1].documentUrl))
               /\ UNCHANGED <<mediaPc, handled, crashReport>>
          ELSE /\ mediaPc' = "failed"
               /\ handled' = Catch(thrown[1])
               /\ UNCHANGED <<storage, crashReport>>
               /\ UNCHANGED <<importVars, loaderVars, resolverVars>>
    /\ UNCHANGED mediaLoaded

\* await loadMedia(...) throws: the catch block, the state is not touched.
LoadMediaThrows ==
    /\ mediaPc = "loadMedia"
    /\ loadPc = "thrown"
    /\ mediaPc' = "failed"
    /\ handled' = Catch(thrown[1])
    /\ crashReport' = CrashReported(thrown[1])
    /\ UNCHANGED <<mediaLoaded, storage>>
    /\ UNCHANGED <<importVars, loaderVars, resolverVars>>

\* await user.initSoukaiEngine() resolves.  Movie.collection =
\* moviesContainer.url throws a TypeError when loadMedia returned no movies
\* container; otherwise the container is committed and 'media-loaded' emitted.
InitSoukaiEngineResolves ==
    /\ mediaPc = "initSoukaiEngine"
    /\ IF returned[1].movies = NULL
          THEN /\ mediaPc' = "failed"
               /\ handled' = Catch(TypeError)
               /\ crashReport' = CrashReported(TypeError)
               /\ UNCHANGED <<moviesContainer, mediaLoaded>>
          ELSE /\ moviesContainer' = returned[1].movies
               /\ mediaLoaded' = TRUE
               /\ mediaPc' = "loaded"
               /\ UNCHANGED <<handled, crashReport>>
    /\ UNCHANGED storage
    /\ UNCHANGED <<importOperation, pc, data, idx, operation, log, movie,
                   lastCall>>
    /\ UNCHANGED <<loaderVars, resolverVars>>

\* unload()
Unload ==
    /\ moviesContainer' = NULL
    /\ storage' = NULL
    /\ UNCHANGED <<importOperation, pc, data, idx, operation, log, movie,
                   lastCall>>
    /\ UNCHANGED <<mediaPc, mediaLoaded, handled, crashReport>>
    /\ UNCHANGED <<loaderVars, resolverVars>>

\* ----------------------------------------------------------------- SolidUser

\* A property that is not set (typeof x === 'undefined'); NULL is null.
Undefined == <<"undefined">>

Calls == 1..MaxCalls

\* The type index and the container a user may come with.
GivenTypeIndexUrl == "/settings/privateTypeIndex"

GivenContainerUrl == "/movies/"

\* A statement of an RDF store.
Statement(subject, predicate, object) ==
    [subject |-> subject, predicate |-> predicate, object |-> object]

\* A term left out of a query (null or omitted): it matches every term.
AnyTerm == "*"

\* The store resolves prefixed names to IRIs.
ExpandIRI(iri) ==
    CASE iri = "rdfs:type" -> "http://www.w3.org/1999/02/22-rdf-syntax-ns#type"
      [] iri = "solid:TypeRegistration" ->
             "http://www.w3.org/ns/solid/terms#TypeRegistration"
      [] iri = "solid:forClass" -> "http://www.w3.org/ns/solid/terms#forClass"
      [] iri = "solid:instanceContainer" ->
             "http://www.w3.org/ns/solid/terms#instanceContainer"
      [] iri = "schema:Movie" -> "https://schema.org/Movie"
      [] iri = "schema:WatchAction" -> "https://schema.org/WatchAction"
      [] OTHER -> iri

Matches(statement, subject, predicate, object) ==
    /\ subject = AnyTerm \/ statement.subject = subject
    /\ predicate = AnyTerm \/ statement.predicate = ExpandIRI(predicate)
    /\ object = AnyTerm \/ statement.object = ExpandIRI(object)

\* store.statements(subject, predicate, object): the matches, in store order.
StoreStatements(store, subject, predicate, object) ==
    SelectSeq(store, LAMBDA statement :
                         Matches(statement, subject, predicate, object))

\* store.statement(subject, predicate, object): the first match, or NULL.
StoreStatement(store, subject, predicate, object) ==
    LET found == StoreStatements(store, subject, predicate, object) IN
    IF found = <<>> THEN NULL ELSE Some(Head(found))

\* store.contains(subject, predicate, object)
StoreContains(store, subject, predicate, object) ==
    StoreStatements(store, subject, predicate, object) # <<>>

\* Mutant of MoviesContainerType: the last registration that matches is
\* taken.
MoviesContainerTypeLastMatch(store) ==
    LET found ==
            SelectSeq(
                StoreStatements(store, AnyTerm, "rdfs:type",
                    "solid:TypeRegistration"),
                LAMBDA statement :
                    /\ StoreContains(store, statement.subject,
                           "solid:forClass", "schema:Movie")
                    /\ StoreContains(store, statement.subject,
                           "solid:instanceContainer", AnyTerm))
    IN  IF found = <<>> THEN NULL ELSE Some(found[Len(found)])

\* const moviesContainerType = store.statements(...).find(...)
MoviesContainerType(store) ==
    LET found ==
            SelectSeq(
                StoreStatements(store, AnyTerm, "rdfs:type",
                    "solid:TypeRegistration"),
                LAMBDA statement :
                    /\ StoreContains(store, statement.subject,
                           "solid:forClass", "schema:Movie")
                    /\ StoreContains(store, statement.subject,
                           "solid:instanceContainer", AnyTerm))
    IN  IF found = <<>> THEN NULL ELSE Some(Head(found))

\* The value getMoviesContainerUrl assigns to this.moviesContainerUrl.
ResolvedMoviesContainerUrl(store) ==
    LET moviesContainerType == MoviesContainerType(store) IN
    IF moviesContainerType # NULL
       THEN Some(StoreStatement(store, moviesContainerType[1].subject,
                     "solid:instanceContainer", AnyTerm)[1].object)
       ELSE NULL

\* new TypeRegistration({ forClass, instanceContainer }), its url minted in
\* the document of the type index from a generated identifier.
NewTypeRegistration(documentUrl, uuid, forClass, instanceContainer) ==
    [document |-> documentUrl,
     url |-> documentUrl \o "#" \o uuid,
     forClass |-> forClass,
     instanceContainer |-> instanceContainer]

\* The statements a saved type registration adds to its document.
Statements(registration) ==
    <<Statement(registration.url, ExpandIRI("rdfs:type"),
          ExpandIRI("solid:TypeRegistration")),
      Statement(registration.url, ExpandIRI("solid:forClass"),
          registration.forClass),
      Statement(registration.url, ExpandIRI("solid:instanceContainer"),
          registration.instanceContainer)>>

\* const rdfsClasses
RdfsClasses == <<"https://schema.org/Movie", "https://schema.org/WatchAction">>

\* UUID.generate(): the n-th identifier generated.
UUID(n) == "uuid-" \o ToString(n)

\* createPrivateTypeIndex mints the url of the document it creates.
MintTypeIndexUrl(n) == GivenTypeIndexUrl \o "-" \o ToString(n)

\* moviesContainer.save(storage) mints the url of the container.
MintContainerUrl(n) == "/movies-" \o ToString(n) \o "/"

\* A call that has not been made.
NoCall ==
    [op |-> "none", fn |-> "none", pc |-> "idle", now |-> Undefined,
     typeIndexUrl |-> Undefined, url |-> Undefined, document |-> Undefined,
     container |-> Undefined, pending |-> {}, result |-> Undefined]

\* The call returns result, or throws.
Return(call, result) == [call EXCEPT !.pc = "returned", !.result = result]

Throw(call) == [call EXCEPT !.pc = "thrown"]

Ended(call) == call.pc \in {"returned", "thrown"}

NoReturn == [op |-> "none", pc |-> "idle", result |-> Undefined]

\* Call c goes on as call.  Of a call that has ended nothing is left but the
\* saves it has started, which are still under way.
Step(c, call) ==
    /\ calls' = [calls EXCEPT
           ![c] = IF Ended(call)
                     THEN [NoCall EXCEPT !.op = call.op,
                                         !.pc = "ended",
                                         !.pending = call.pending]
                     ELSE call]
    /\ lastReturn' =
           IF Ended(call)
              THEN [op |-> call.op, pc |-> call.pc,
                    result |-> IF call.pc = "returned" THEN call.result
                               ELSE Undefined]
              ELSE lastReturn

\* Calls are made in the order of their frames.
FreeCall(c) ==
    /\ calls[c].op = "none"
    /\ \A d \in 1..(c - 1) : calls[d].op # "none"

\* In fn, once const typeIndexUrl has its value: getMoviesContainerUrl
\* fetches the document, createMoviesContainer saves the new container.
WithTypeIndexUrl(call, fn, url) ==
    [call EXCEPT !.fn = fn,
                 !.typeIndexUrl = Some(url),
                 !.pc = IF fn = "getMoviesContainerUrl" THEN "fromUrl"
                        ELSE "save"]

\* Mutant of TypeIndexUrlOrCreate: a type index is created whether the user
\* has one or not.
TypeIndexUrlAlwaysCreate(call, fn) ==
    [call EXCEPT !.fn = fn, !.pc = "createTypeIndex"]

\* const typeIndexUrl = this.typeIndexUrl ?? await this.createTypeIndex()
TypeIndexUrlOrCreate(call, fn) ==
    IF typeIndexUrl = Undefined
       THEN [call EXCEPT !.fn = fn, !.pc = "createTypeIndex"]
       ELSE WithTypeIndexUrl(call, fn, typeIndexUrl[1])

\* getMoviesContainerUrl returns url: to its caller; into
\* initMoviesContainer, which looks the container up or creates it; or, by
\* way of getMoviesContainerDocument, into getCachedMoviesContainer, which
\* returns null with no url and else fetches the listing of the parent.  The
\* locals of getMoviesContainerUrl are gone; initMoviesContainer reads url no
\* more once it has decided to create.
ReturnUrl(call, url) ==
    CASE call.op = "getMoviesContainerUrl" -> Return(call, url)
      [] call.op = "initMoviesContainer" ->
             IF url # NULL
                THEN [NoCall EXCEPT !.op = call.op,
                                    !.now = call.now,
                                    !.fn = "initMoviesContainer",
                                    !.pc = "find",
                                    !.url = url]
                ELSE TypeIndexUrlOrCreate(
                         [NoCall EXCEPT !.op = call.op, !.now = call.now],
                         "createMoviesContainer")
      [] call.op = "getCachedMoviesContainer" ->
             IF url # NULL
                THEN [NoCall EXCEPT !.op = call.op,
                                    !.fn = "getMoviesContainerDocument",
                                    !.pc = "fromUrlParent",
                                    !.url = url]
                ELSE Return(call, NULL)

\* Mutant of EnterGetMoviesContainerUrl: the memoized value is not looked at.
EnterGetMoviesContainerUrlUnmemoized(call) ==
    TypeIndexUrlOrCreate(call, "getMoviesContainerUrl")

\* The body of getMoviesContainerUrl up to its first await.
EnterGetMoviesContainerUrl(call) ==
    IF moviesContainerUrl = Undefined
       THEN TypeIndexUrlOrCreate(call, "getMoviesContainerUrl")
       ELSE ReturnUrl(call, moviesContainerUrl)

\* The fetches, counting the one call has issued if it now awaits it.
Fetched(call) == IF call.pc = "fromUrl" THEN fetches + 1 ELSE fetches

\* A model of the cache: the movies container at url.
ContainerModel(url) == [modelClass |-> "MediaContainer", url |-> url]

\* What the cache holds of a document: the date it was remembered with, and
\* its models.
CacheEntry(date, models) == [fetchedAt |-> date, models |-> models]

\* initMoviesContainer remembers the document of the container it returns,
\* with the date of its own start, and the container.
Remembered(call) ==
    IF call.op = "initMoviesContainer" /\ call.pc = "returned"
       THEN (call.result[1] :>
                 CacheEntry(call.now[1], <<ContainerModel(call.result[1])>>))
            @@ remembered
       ELSE remembered

\* getMoviesContainerUrl() is called.
GetMoviesContainerUrl(c) ==
    /\ FreeCall(c)
    /\ LET call == EnterGetMoviesContainerUrl(
                       [NoCall EXCEPT !.op = "getMoviesContainerUrl"])
       IN  /\ Step(c, call)
           /\ fetches' = Fetched(call)
    /\ UNCHANGED <<typeIndexUrl, moviesContainerUrl, documents, podContainers,
                   uuids, remembered>>
    /\ UNCHANGED <<clock, listing>>
    /\ UNCHANGED besidesResolver

\* createMoviesContainer() is called.
CreateMoviesContainer(c) ==
    /\ FreeCall(c)
    /\ Step(c, TypeIndexUrlOrCreate(
                   [NoCall EXCEPT !.op = "createMoviesContainer"],
                   "createMoviesContainer"))
    /\ UNCHANGED <<typeIndexUrl, moviesContainerUrl, documents, podContainers,
                   fetches, uuids, remembered>>
    /\ UNCHANGED <<clock, listing>>
    /\ UNCHANGED besidesResolver

\* initMoviesContainer() is called.
InitMoviesContainer(c) ==
    /\ FreeCall(c)
    /\ LET call == EnterGetMoviesContainerUrl(
                       [NoCall EXCEPT !.op = "initMoviesContainer",
                                      !.now = Some(clock)])
       IN  /\ Step(c, call)
           /\ fetches' = Fetched(call)
    /\ UNCHANGED <<typeIndexUrl, moviesContainerUrl, documents, podContainers,
                   uuids, remembered>>
    /\ UNCHANGED <<clock, listing>>
    /\ UNCHANGED besidesResolver

\* await this.createTypeIndex() resolves: the document exists, its url is
\* kept in this.typeIndexUrl and returned to the function that asked for it.
CreateTypeIndexResolves(c) ==
    /\ calls[c].pc = "createTypeIndex"
    /\ LET url == MintTypeIndexUrl(Cardinality(DOMAIN documents))
           call == WithTypeIndexUrl(calls[c], calls[c].fn, url)
       IN  /\ documents' = (url :> <<>>) @@ documents
           /\ typeIndexUrl' = Some(url)
           /\ Step(c, call)
           /\ fetches' = Fetched(call)
    /\ UNCHANGED <<moviesContainerUrl, podContainers, uuids, remembered>>
    /\ UNCHANGED <<clock, listing>>
    /\ UNCHANGED besidesResolver

\* Mutant of FromUrlResolves: with no url found a container is made.
FromUrlResolvesCreatesContainer(c) ==
    /\ calls[c].pc = "fromUrl"
    /\ LET url == ResolvedMoviesContainerUrl(
                      documents[calls[c].typeIndexUrl[1]])
       IN  /\ moviesContainerUrl' = url
           /\ podContainers' =
                  IF url = NULL
                     THEN podContainers \cup
                              {MintContainerUrl(Cardinality(podContainers))}
                     ELSE podContainers
           /\ Step(c, ReturnUrl(calls[c], url))
    /\ UNCHANGED <<typeIndexUrl, documents, fetches, uuids, remembered>>
    /\ UNCHANGED <<clock, listing>>
    /\ UNCHANGED besidesResolver

\* await RDFStore.fromUrl(SolidAuth.fetch, typeIndexUrl) resolves: the url
\* found is memoized and returned.
FromUrlResolves(c) ==
    /\ calls[c].pc = "fromUrl"
    /\ LET url == ResolvedMoviesContainerUrl(
                      documents[calls[c].typeIndexUrl[1]])
       IN  /\ moviesContainerUrl' = url
           /\ Step(c, ReturnUrl(calls[c], url))
    /\ UNCHANGED <<typeIndexUrl, documents, podContainers, fetches, uuids,
                   remembered>>
    /\ UNCHANGED <<clock, listing>>
    /\ UNCHANGED besidesResolver

\* await MediaContainer.find(url) resolves: with the container, which
\* initMoviesContainer returns, or with null, and it creates one.
FindResolves(c) ==
    /\ calls[c].pc = "find"
    /\ LET call ==
               IF calls[c].url[1] \in podContainers
                  THEN Return(calls[c], calls[c].url)
                  ELSE TypeIndexUrlOrCreate(
                           [NoCall EXCEPT !.op = calls[c].op,
                                          !.now = calls[c].now],
                           "createMoviesContainer")
       IN  /\ Step(c, call)
           /\ remembered' = Remembered(call)
    /\ UNCHANGED <<typeIndexUrl, moviesContainerUrl, documents, podContainers,
                   fetches, uuids>>
    /\ UNCHANGED <<clock, listing>>
    /\ UNCHANGED besidesResolver

\* await moviesContainer.save(storage) resolves: the container exists; a type
\* registration is made for each class and its save is started.
ContainerSaveResolves(c) ==
    /\ calls[c].pc = "save"
    /\ LET url == MintContainerUrl(Cardinality(podContainers)) IN
        /\ podContainers' = podContainers \cup {url}
        /\ listing' = (url :> clock) @@ listing
        /\ Step(c, [calls[c] EXCEPT
               !.pc = "saveRegistrations",
               !.container = Some(url),
               !.pending =
                   {NewTypeRegistration(typeIndexUrl[1], UUID(uuids + i),
                        RdfsClasses[i], url) :
                        i \in 1..Len(RdfsClasses)}])
    /\ uuids' = uuids + Len(RdfsClasses)
    /\ UNCHANGED <<typeIndexUrl, moviesContainerUrl, documents, fetches,
                   remembered, clock>>
    /\ UNCHANGED besidesResolver

\* With every save of Promise.all resolved, createMoviesContainer returns the
\* container.
Settled(call) ==
    IF call.pc = "saveRegistrations" /\ call.pending = {}
       THEN Return(call, call.container)
       ELSE call

\* The type registration of rdfsClass whose save call c has under way.
Pending(c, rdfsClass) ==
    {registration \in calls[c].pending : registration.forClass = rdfsClass}

\* Mutant of TypeRegistrationSaveResolves: the registration is not written.
TypeRegistrationSaveResolvesUnwritten(c, rdfsClass) ==
    /\ Pending(c, rdfsClass) # {}
    /\ LET registration == CHOOSE r \in Pending(c, rdfsClass) : TRUE
           call == Settled([calls[c] EXCEPT !.pending = @ \ {registration}])
       IN  /\ Step(c, call)
           /\ remembered' = Remembered(call)
    /\ UNCHANGED <<typeIndexUrl, moviesContainerUrl, documents, podContainers,
                   fetches, uuids>>
    /\ UNCHANGED <<clock, listing>>
    /\ UNCHANGED besidesResolver

\* typeRegistration.save(...) resolves: the registration is in its document.
TypeRegistrationSaveResolves(c, rdfsClass) ==
    /\ Pending(c, rdfsClass) # {}
    /\ LET registration == CHOOSE r \in Pending(c, rdfsClass) : TRUE
           call == Settled([calls[c] EXCEPT !.pending = @ \ {registration}])
       IN  /\ documents' = [documents EXCEPT
                                ![registration.document] =
                                    @ \o Statements(registration)]
           /\ Step(c, call)
           /\ remembered' = Remembered(call)
    /\ UNCHANGED <<typeIndexUrl, moviesContainerUrl, podContainers, fetches,
                   uuids>>
    /\ UNCHANGED <<clock, listing>>
    /\ UNCHANGED besidesResolver

\* typeRegistration.save(...) rejects: Promise.all rejects and
\* createMoviesContainer throws; the other save is still under way.
TypeRegistrationSaveRejects(c, rdfsClass) ==
    /\ Pending(c, rdfsClass) # {}
    /\ Step(c, IF calls[c].pc = "saveRegistrations"
                  THEN Throw([calls[c] EXCEPT
                                  !.pending = @ \ Pending(c, rdfsClass)])
                  ELSE [calls[c] EXCEPT !.pending = @ \ Pending(c, rdfsClass)])
    /\ UNCHANGED <<typeIndexUrl, moviesContainerUrl, documents, podContainers,
                   fetches, uuids, remembered>>
    /\ UNCHANGED <<clock, listing>>
    /\ UNCHANGED besidesResolver

\* An awaited request rejects: the call throws.
AwaitRejects(c) ==
    /\ calls[c].pc \in {"createTypeIndex", "fromUrl", "find", "save",
                        "fromUrlParent"}
    /\ Step(c, Throw(calls[c]))
    /\ UNCHANGED <<typeIndexUrl, moviesContainerUrl, documents, podContainers,
                   fetches, uuids, remembered>>
    /\ UNCHANGED <<clock, listing>>
    /\ UNCHANGED besidesResolver

\* The threshold, in milliseconds, getCachedMoviesContainer considers the
\* cached models valid with.
FreshnessThreshold == 10000

\* isFresh(entry, observedModifiedAt, thresholdMs)
IsFresh(entry, observedModifiedAt, thresholdMs) ==
    entry.fetchedAt - observedModifiedAt <= thresholdMs

\* ModelsCache.getFromDocument(document, threshold): the models remembered of
\* the document if its entry is fresh, else NULL.
GetFromDocument(document, threshold) ==
    IF document.url \notin DOMAIN remembered THEN NULL
    ELSE IF IsFresh(remembered[document.url], document.updatedAt, threshold)
            THEN Some(remembered[document.url].models)
            ELSE NULL

\* new SolidDocument({ url, updatedAt: new Date(modified.object.value) }, true)
NewSolidDocument(url, updatedAt) == [url |-> url, updatedAt |-> updatedAt]

\* The first MediaContainer among models (the models are NULL on a miss).
FirstMoviesContainer(models) ==
    LET found == SelectSeq(IF models = NULL THEN <<>> ELSE models[1],
                     LAMBDA model : model.modelClass = "MediaContainer")
    IN  IF found = <<>> THEN NULL ELSE Some(Head(found).url)

\* Mutant of CachedMoviesContainer: the cache is asked with no threshold.
CachedMoviesContainerNoThreshold(document) ==
    FirstMoviesContainer(GetFromDocument(document, 0))

\* What getCachedMoviesContainer returns once it has the document.
CachedMoviesContainer(document) ==
    FirstMoviesContainer(GetFromDocument(document, FreshnessThreshold))

\* getCachedMoviesContainer() is called.
GetCachedMoviesContainer(c) ==
    /\ FreeCall(c)
    /\ LET call == EnterGetMoviesContainerUrl(
                       [NoCall EXCEPT !.op = "getCachedMoviesContainer"])
       IN  /\ Step(c, call)
           /\ fetches' = Fetched(call)
    /\ UNCHANGED <<typeIndexUrl, moviesContainerUrl, documents, podContainers,
                   uuids, remembered, clock, listing>>
    /\ UNCHANGED besidesResolver

\* await RDFStore.fromUrl(SolidAuth.fetch, Url.parentDirectory(url)) resolves:
\* with no modified date of the container in the listing there is no document
\* and getCachedMoviesContainer returns null; else it asks the cache.
ParentFromUrlResolves(c) ==
    /\ calls[c].pc = "fromUrlParent"
    /\ LET url == calls[c].url[1] IN
       Step(c, IF url \in DOMAIN listing
                  THEN [calls[c] EXCEPT
                            !.fn = "getCachedMoviesContainer",
                            !.pc = "getFromDocument",
                            !.url = Undefined,
                            !.document =
                                Some(NewSolidDocument(url, listing[url]))]
                  ELSE Return(calls[c], NULL))
    /\ UNCHANGED <<typeIndexUrl, moviesContainerUrl, documents, podContainers,
                   fetches, uuids, remembered, clock, listing>>
    /\ UNCHANGED besidesResolver

\* await ModelsCache.getFromDocument(moviesContainerDocument, 10000) resolves.
GetFromDocumentResolves(c) ==
    /\ calls[c].pc = "getFromDocument"
    /\ Step(c, Return(calls[c], CachedMoviesContainer(calls[c].document[1])))
    /\ UNCHANGED <<typeIndexUrl, moviesContainerUrl, documents, podContainers,
                   fetches, uuids, remembered, clock, listing>>
    /\ UNCHANGED besidesResolver

\* ------------------------------------------------------- the crash report

\* location.reload(): the page starts anew.  The service and its loader are
\* as after construction, whatever they were doing.
Reload ==
    /\ moviesContainer' = NULL
    /\ importOperation' = 0
    /\ pc' = [r \in Frames |-> "idle"]
    /\ data' = [r \in Frames |-> <<>>]
    /\ idx' = [r \in Frames |-> 0]
    /\ operation' = [r \in Frames |-> NewOperation(<<>>)]
    /\ log' = [r \in Frames |-> EmptyLog]
    /\ movie' = [r \in Frames |-> NULL]
    /\ lastCall' = "none"
    /\ loadPc' = "idle"
    /\ error' = NULL
    /\ containers' = [movies |-> NULL]
    /\ worker' = NewWorker
    /\ channel' = <<>>
    /\ returned' = NULL
    /\ thrown' = NULL
    /\ params' = [ignoredDocumentUrls |-> <<>>]
    /\ mediaPc' = "idle"
    /\ mediaLoaded' = FALSE
    /\ handled' = "none"
    /\ crashReport' = NULL

\* The user chooses 'Ignore this document' of the crash report:
\* ignoreDocument() puts the url of the document at the end of the stored
\* list and reloads the page.  Of the user, built again from the session,
\* the memoized container url and the calls under way are gone; the storage
\* and what is on the pod stay.
IgnoreDocument ==
    /\ crashReport # NULL
    /\ storage' = Some(Append(StoredUrls, crashReport[1].documentUrl))
    /\ Reload
    /\ moviesContainerUrl' = Undefined
    /\ calls' = [c \in Calls |-> NoCall]
    /\ lastReturn' = NoReturn
    /\ UNCHANGED <<typeIndexUrl, documents, podContainers, fetches, uuids,
                   remembered, clock, listing>>

\* ------------------------------------------------------------ specification

\* The containers a finished load leaves in the state (none before it).
InitialContainers ==
    {NULL} \cup
    {Some(SetRelationModels(NewMediaContainer(ContainerUrl), "movies", s)) :
        s \in {<<>>} \cup {<<NewMovie(t)>> : t \in Titles}}

\* The Media service after construction.
MediaInit ==
    /\ moviesContainer \in InitialContainers
    /\ importOperation = 0
    /\ pc = [r \in Frames |-> "idle"]
    /\ data = [r \in Frames |-> <<>>]
    /\ idx = [r \in Frames |-> 0]
    /\ operation = [r \in Frames |-> NewOperation(<<>>)]
    /\ log = [r \in Frames |-> EmptyLog]
    /\ movie = [r \in Frames |-> NULL]
    /\ lastCall = "none"
    /\ loadPc = "idle"
    /\ error = NULL
    /\ containers = [movies |-> NULL]
    /\ worker = NewWorker
    /\ channel = <<>>
    /\ returned = NULL
    /\ thrown = NULL
    /\ params = [ignoredDocumentUrls |-> <<>>]
    /\ mediaPc = "idle"
    /\ mediaLoaded = FALSE
    /\ handled = "none"
    /\ storage = NULL
    /\ crashReport = NULL

\* A user with an empty storage, on whom nothing has been resolved.
UserInit ==
    /\ typeIndexUrl = Undefined
    /\ moviesContainerUrl = Undefined
    /\ documents = <<>>
    /\ podContainers = {}
    /\ calls = [c \in Calls |-> NoCall]
    /\ lastReturn = NoReturn
    /\ fetches = 0
    /\ uuids = 0
    /\ remembered = <<>>
    /\ clock = 0
    /\ listing = [url \in podContainers |-> 0]

Init == MediaInit /\ UserInit

Next ==
    \/ \E d \in Batches : ImportMovies(d)
    \/ ImportMoviesThrows
    \/ CancelImport
    \/ \E r \in Frames : AnimationFrame(r)
    \/ \E r \in Frames : ValidateResolves(r)
    \/ \E r \in Frames, e \in ValidateErrors : ValidateRejects(r, e)
    \/ \E r \in Frames : ParseResolves(r)
    \/ \E r \in Frames : ParseRejects(r, GenericError)
    \/ \E r \in Frames : FetchResolves(r)
    \/ \E r \in Frames : FetchRejects(r, GenericError)
    \/ \E r \in Frames : SaveResolves(r)
    \/ \E r \in Frames : SaveRejects(r, GenericError)

Spec == Init /\ [][Next]_vars

\* An awaited step of the invocation in frame r completes, one way or the
\* other.
Completes(r) ==
    \/ AnimationFrame(r)
    \/ ValidateResolves(r)
    \/ \E e \in ValidateErrors : ValidateRejects(r, e)
    \/ ParseResolves(r)
    \/ ParseRejects(r, GenericError)
    \/ FetchResolves(r)
    \/ FetchRejects(r, GenericError)
    \/ SaveResolves(r)
    \/ SaveRejects(r, GenericError)

\* The import pipeline when every awaited step of an invocation completes
\* (one invocation at most is suspended in its loop), on a service that has
\* not loaded its catalog and on one whose catalog holds a movie.
FairInit ==
    /\ Init
    /\ moviesContainer \in {NULL, Some(WithMovie(LoadedContainer(ContainerUrl),
                                            NewMovie("A")))}

FairSpec ==
    /\ FairInit
    /\ [][Next]_vars
    /\ WF_vars(\E r \in Frames : Completes(r))

\* The loader alone: one service, loading its catalog, not yet importing.
LoaderInit == Init /\ moviesContainer = NULL

LoaderNext ==
    \/ Load
    \/ \E message \in ProgressMessages : WorkerPosts(message)
    \/ \E message \in {ResultMessage} \cup {ErrorMessage(e) : e \in RunErrors} :
           WorkerTerminates(message)
    \/ OnUnauthorized
    \/ OnMoviesContainerLoaded
    \/ OnMovieLoaded
    \/ RunResolves
    \/ RunRejects
    \/ LoadMediaReturns
    \/ LoadMediaThrows
    \/ InitSoukaiEngineResolves
    \/ Unload

LoaderSpec == LoaderInit /\ [][LoaderNext]_vars

\* The loader and the user's choice on a malformed document.
IgnoreNext ==
    \/ Load
    \/ \E message \in ProgressMessages : WorkerPosts(message)
    \/ \E message \in {ResultMessage} \cup {ErrorMessage(e) : e \in RunErrors} :
           WorkerTerminates(message)
    \/ OnUnauthorized
    \/ OnMoviesContainerLoaded
    \/ OnMovieLoaded
    \/ RunResolves
    \/ RunRejects
    \/ LoadMediaReturns
    \/ LoadMediaThrows
    \/ InitSoukaiEngineResolves
    \/ Unload
    \/ IgnoreDocument

IgnoreSpec == LoaderInit /\ [][IgnoreNext]_vars

\* The index documents a user may come with: none registered, the movies
\* container registered, only the other class registered.
InitialStores ==
    {<<>>,
     Statements(NewTypeRegistration(GivenTypeIndexUrl, "given-1",
                    "https://schema.org/Movie", GivenContainerUrl)),
     Statements(NewTypeRegistration(GivenTypeIndexUrl, "given-2",
                    "https://schema.org/WatchAction", GivenContainerUrl))}

\* The resolver alone: a user constructed with or without a type index, whose
\* storage holds the movies container or not.
ResolverInit ==
    /\ MediaInit
    /\ moviesContainer = NULL
    /\ moviesContainerUrl = Undefined
    /\ \/ /\ typeIndexUrl = Undefined
          /\ documents = <<>>
          /\ podContainers = {}
       \/ /\ typeIndexUrl = Some(GivenTypeIndexUrl)
          /\ \E store \in InitialStores :
                 /\ documents = (GivenTypeIndexUrl :> store)
                 /\ podContainers \in
                        IF ResolvedMoviesContainerUrl(store) = NULL THEN {{}}
                        ELSE {{}, {GivenContainerUrl}}
    /\ calls = [c \in Calls |-> NoCall]
    /\ lastReturn = NoReturn
    /\ fetches = 0
    /\ uuids = 0
    /\ remembered = <<>>
    /\ clock = 0
    /\ listing = [url \in podContainers |-> 0]

\* The resolver calls getMoviesContainerUrl and createMoviesContainer, in any
\* interleaving.
ResolverNext ==
    \/ \E c \in Calls : GetMoviesContainerUrl(c)
    \/ \E c \in Calls : CreateMoviesContainer(c)
    \/ \E c \in Calls : CreateTypeIndexResolves(c)
    \/ \E c \in Calls : FromUrlResolves(c)
    \/ \E c \in Calls : ContainerSaveResolves(c)
    \/ \E c \in Calls, i \in DOMAIN RdfsClasses :
           TypeRegistrationSaveResolves(c, RdfsClasses[i])
    \/ \E c \in Calls, i \in DOMAIN RdfsClasses :
           TypeRegistrationSaveRejects(c, RdfsClasses[i])
    \/ \E c \in Calls : AwaitRejects(c)

ResolverSpec == ResolverInit /\ [][ResolverNext]_vars

\* The calls of initMoviesContainer, in any interleaving.
InitNext ==
    \/ \E c \in Calls : InitMoviesContainer(c)
    \/ \E c \in Calls : CreateTypeIndexResolves(c)
    \/ \E c \in Calls : FromUrlResolves(c)
    \/ \E c \in Calls : FindResolves(c)
    \/ \E c \in Calls : ContainerSaveResolves(c)
    \/ \E c \in Calls, i \in DOMAIN RdfsClasses :
           TypeRegistrationSaveResolves(c, RdfsClasses[i])
    \/ \E c \in Calls, i \in DOMAIN RdfsClasses :
           TypeRegistrationSaveRejects(c, RdfsClasses[i])
    \/ \E c \in Calls : AwaitRejects(c)

InitSpec == ResolverInit /\ [][InitNext]_vars

\* The statements an index document may hold about two subjects: the type of
\* each, the classes it is registered for, the containers it names.
IndexStatements ==
    {Statement("#a", ExpandIRI("rdfs:type"),
         ExpandIRI("solid:TypeRegistration")),
     Statement("#a", ExpandIRI("solid:forClass"), ExpandIRI("schema:Movie")),
     Statement("#a", ExpandIRI("solid:instanceContainer"), "/a/"),
     Statement("#a", ExpandIRI("solid:instanceContainer"), "/a-2/"),
     Statement("#b", ExpandIRI("rdfs:type"),
         ExpandIRI("solid:TypeRegistration")),
     Statement("#b", ExpandIRI("solid:forClass"), ExpandIRI("schema:Movie")),
     Statement("#b", ExpandIRI("solid:forClass"),
         ExpandIRI("schema:WatchAction")),
     Statement("#b", ExpandIRI("solid:instanceContainer"), "/b/")}

\* statement may follow the statements of store: it is not among them, and
\* it registers no subject for a second class, as a TypeRegistration has one
\* forClass.
MayFollow(store, statement) ==
    \A i \in DOMAIN store :
        /\ store[i] # statement
        /\ (/\ store[i].subject = statement.subject
            /\ store[i].predicate = ExpandIRI("solid:forClass"))
               => statement.predicate # ExpandIRI("solid:forClass")

\* The index documents of n statements, in any order.
RECURSIVE StoresOfLength(_)
StoresOfLength(n) ==
    IF n = 0 THEN {<<>>}
    ELSE UNION {{Append(store, statement) :
                     statement \in {t \in IndexStatements :
                                       MayFollow(store, t)}} :
                    store \in StoresOfLength(n - 1)}

\* The index documents of at most max statements.
IndexStores(max) == UNION {StoresOfLength(n) : n \in 0..max}

\* The scan of the index document alone: a user constructed with a type
\* index that holds any of these stores.
StoreInit ==
    /\ MediaInit
    /\ moviesContainer = NULL
    /\ typeIndexUrl = Some(GivenTypeIndexUrl)
    /\ moviesContainerUrl = Undefined
    /\ \E store \in IndexStores(MaxStatements) :
           documents = (GivenTypeIndexUrl :> store)
    /\ podContainers = {}
    /\ calls = [c \in Calls |-> NoCall]
    /\ lastReturn = NoReturn
    /\ fetches = 0
    /\ uuids = 0
    /\ remembered = <<>>
    /\ clock = 0
    /\ listing = <<>>

StoreNext ==
    \/ \E c \in Calls : GetMoviesContainerUrl(c)
    \/ \E c \in Calls : FromUrlResolves(c)

StoreSpec == StoreInit /\ [][StoreNext]_vars

\* The dates of the cache and of the listing: around the threshold.
Dates == {0, 1, FreshnessThreshold, FreshnessThreshold + 1}

\* The cache alone: a user constructed with a type index, whose container, if
\* there is one, was modified at some date, and of whom initMoviesContainer
\* has remembered the container at some date, or has not.
CacheInit ==
    /\ MediaInit
    /\ moviesContainer = NULL
    /\ typeIndexUrl = Some(GivenTypeIndexUrl)
    /\ moviesContainerUrl = Undefined
    /\ \E store \in InitialStores : documents = (GivenTypeIndexUrl :> store)
    /\ listing \in {<<>>} \cup {(GivenContainerUrl :> date) : date \in Dates}
    /\ podContainers = DOMAIN listing
    /\ remembered \in
           {<<>>} \cup
           {(GivenContainerUrl :>
                 CacheEntry(date, <<ContainerModel(GivenContainerUrl)>>)) :
                date \in Dates}
    /\ clock = FreshnessThreshold + 1
    /\ calls = [c \in Calls |-> NoCall]
    /\ lastReturn = NoReturn
    /\ fetches = 0
    /\ uuids = 0

\* The calls of getCachedMoviesContainer, in any interleaving.
CacheNext ==
    \/ \E c \in Calls : GetCachedMoviesContainer(c)
    \/ \E c \in Calls : FromUrlResolves(c)
    \/ \E c \in Calls : ParentFromUrlResolves(c)
    \/ \E c \in Calls : GetFromDocumentResolves(c)
    \/ \E c \in Calls : AwaitRejects(c)

CacheSpec == CacheInit /\ [][CacheNext]_vars

\* ------------------------------------------------------------------ claims

\* The items of a log's four outcome buckets, and of all five.
Classified(l) == Len(l.added) + Len(l.ignored) + Len(l.invalid) + Len(l.failed)

Bucketed(l) == Classified(l) + Len(l.unprocessed)

\* How often raw record t occurs in a batch, and in the buckets of a log.
Occurrences(d, t) == Cardinality({i \in 1..Len(d) : d[i] = t})

BucketOccurrences(l, t) ==
    Cardinality({i \in 1..Len(l.added) : l.added[i].title = t})
    + Cardinality({i \in 1..Len(l.ignored) : l.ignored[i].data = t})
    + Cardinality({i \in 1..Len(l.invalid) : l.invalid[i].data = t})
    + Cardinality({i \in 1..Len(l.failed) : l.failed[i].data = t})
    + Cardinality({i \in 1..Len(l.unprocessed) : l.unprocessed[i] = t})

\* C1: when a run of importMovies has finished, by completion or by
\* cancellation, every submitted item is in exactly one of added, ignored,
\* invalid, failed, unprocessed: the bucket lengths sum to the number of
\* items submitted, and each raw record is in the buckets as often as in the
\* batch.
C1_BucketsPartitionBatch ==
    \A r \in Frames :
        pc[r] = "done" =>
            /\ Bucketed(log[r]) = Len(data[r])
            /\ operation[r].total = Len(data[r])
            /\ \A t \in Titles :
                   BucketOccurrences(log[r], t) = Occurrences(data[r], t)

\* C1's case: a cancelled run of three items, one added, one failed, one
\* unprocessed.
C1_Witness ==
    /\ pc[1] = "done"
    /\ Len(data[1]) = 3
    /\ Len(log[1].added) = 1
    /\ Len(log[1].failed) = 1
    /\ Len(log[1].unprocessed) = 1

\* C2: a run suspended at an item boundary with the cancellation flag set
\* and k of its n items processed stops there: current stays k, unprocessed
\* is the last n - k items of the batch in their order, the other buckets
\* are untouched, and the frame goes straight to its end, so that neither
\* fetchMissingAttributes nor save is called once the flag is observed.
C2_CancelStopsAtBoundary ==
    [][\A r \in Frames :
          LET k == operation[r].current
              n == Len(data[r])
          IN  /\ pc[r] = "frame" => k < n /\ Classified(log[r]) = k
              /\ (pc[r] = "frame" /\ operation[r].cancelled /\ pc'[r] # "frame") =>
                    /\ pc'[r] = "done"
                    /\ importOperation' = 0
                    /\ operation'[r].current = k
                    /\ log'[r].unprocessed = [i \in 1..(n - k) |-> data[r][k + i]]
                    /\ log'[r].added = log[r].added
                    /\ log'[r].ignored = log[r].ignored
                    /\ log'[r].invalid = log[r].invalid
                    /\ log'[r].failed = log[r].failed
                    /\ moviesContainer' = moviesContainer
              /\ (pc[r] = "done" /\ pc'[r] # "done") =>
                    lastCall' = "importMovies" /\ pc'[r] = "frame"
      ]_vars

\* C2's case: cancelled after 1 of 3 items; the run has stopped with 2
\* unprocessed.
C2_Witness ==
    /\ pc[1] = "done"
    /\ operation[1].cancelled
    /\ operation[1].current = 1
    /\ Len(data[1]) = 3
    /\ log[1].unprocessed = SubSeq(data[1], 2, 3)

\* C3: at most one run is active at any time; importMovies called while
\* importOperation is set throws, and leaves the active run's operation, its
\* log and everything else of the state as they were.
C3_SingleActiveRun ==
    [][/\ Cardinality({r \in Frames : pc'[r] \notin {"idle", "done"}}) <= 1
       /\ (/\ importOperation # 0
           /\ lastCall' # lastCall
           /\ lastCall' \in {"importMovies", "importMovies:throws"}) =>
              /\ lastCall' = "importMovies:throws"
              /\ UNCHANGED <<moviesContainer, importOperation, pc, data, idx,
                             operation, log, movie>>
      ]_vars

\* C3's case: a call was rejected while a run awaits a save.
C3_Witness ==
    /\ lastCall = "importMovies:throws"
    /\ importOperation = 1
    /\ pc[1] = "save"
    /\ operation[1].current = 2

\* An exception e is raised for the item in flight of frame r, by
\* parser.parse, by fetchMissingAttributes or by the save (which includes the
\* TypeError of saving with no container).
Raised(r, e) ==
    \/ ParseRejects(r, e)
    \/ FetchRejects(r, e)
    \/ SaveRejects(r, e)
    \/ (FetchResolves(r) /\ ~Loaded /\ e = TypeError)

\* C4: an exception raised while parsing, enriching or persisting an item
\* puts that item in failed with the error and does not end the run: with
\* items left the run goes on to the next one, and a run that ends without
\* having been cancelled has processed and classified every item.
C4_FailureDoesNotEndRun ==
    [][\A r \in Frames :
          /\ \A e \in {GenericError, TypeError} :
                Raised(r, e) =>
                    /\ log'[r] = [log[r] EXCEPT !.failed =
                           Append(@, [error |-> e,
                                      data |-> data[r][operation[r].current]])]
                    /\ operation' = operation
                    /\ IF operation[r].current < operation[r].total
                          THEN pc'[r] = "frame" /\ importOperation' = r
                          ELSE pc'[r] = "done" /\ importOperation' = 0
          /\ (pc'[r] = "done" /\ ~operation'[r].cancelled) =>
                /\ operation'[r].current = operation'[r].total
                /\ Classified(log'[r]) = operation'[r].total
                /\ log'[r].unprocessed = <<>>
      ]_vars

\* C4's case: the first item's save failed, and the third item was added.
C4_Witness ==
    /\ pc[1] = "done"
    /\ Len(data[1]) = 3
    /\ Len(log[1].failed) >= 1
    /\ log[1].failed[1].data = data[1][1]
    /\ log[1].failed[1].error = GenericError
    /\ Len(log[1].added) >= 1
    /\ log[1].added[Len(log[1].added)] = Parse(data[1][3])

\* What a run of batch d leaves in its log when every item is valid, parses,
\* is enriched and is persisted: an item whose title is among titles (those
\* of the collection so far) is ignored as a duplicate, any other is added
\* and is in the collection from then on.
RECURSIVE ExpectedLog(_, _, _, _)
ExpectedLog(d, i, titles, l) ==
    IF i > Len(d) THEN l
    ELSE IF d[i] \in titles
       THEN ExpectedLog(d, i + 1, titles,
                [l EXCEPT !.ignored =
                     Append(@, [reason |-> AlreadyInCollection, data |-> d[i]])])
       ELSE ExpectedLog(d, i + 1, titles \cup {d[i]},
                [l EXCEPT !.added = Append(@, Parse(d[i]))])

\* Nothing of the log is invalid, failed, unprocessed or unsuitable.
OnlyAddedAndDuplicates(l) ==
    /\ l.invalid = <<>>
    /\ l.failed = <<>>
    /\ l.unprocessed = <<>>
    /\ \A i \in 1..Len(l.ignored) : l.ignored[i].reason = AlreadyInCollection

\* The titles a collection, now movies, held when the run with log l
\* started: all but the movies the run added.
TitlesAtStart(movies, l) ==
    {movies[i].title : i \in 1..(Len(movies) - Len(l.added))}

\* C5: the duplicate check puts an item whose parsed record equals a record
\* of the catalog in ignored, once per occurrence, and lets any other item
\* go on to enrichment; a persisted item goes to added.  So a run in which
\* nothing is invalid, unsuitable, failed or cancelled ends with the log
\* ExpectedLog gives: for [A, A, B] over a catalog holding A, added = [B] and
\* ignored = [A, A].
C5_DuplicatesIgnoredOthersAdded ==
    [][\A r \in Frames :
          LET item == data[r][operation[r].current]
              duplicate == \E i \in 1..Len(Movies) : Movies[i].title = item
          IN  /\ ParseResolves(r) =>
                    IF duplicate
                       THEN /\ log'[r] = [log[r] EXCEPT !.ignored =
                                   Append(@, [reason |-> AlreadyInCollection,
                                              data |-> item])]
                            /\ pc'[r] \in {"frame", "done"}
                       ELSE /\ log'[r] = log[r]
                            /\ pc'[r] = "fetch"
              /\ SaveResolves(r) =>
                    log'[r] = [log[r] EXCEPT !.added = Append(@, Parse(item))]
              /\ (pc'[r] = "done" /\ OnlyAddedAndDuplicates(log'[r])) =>
                    log'[r] = ExpectedLog(data'[r], 1, TitlesAtStart(Movies', log'[r]),
                                          EmptyLog)
      ]_vars

\* C5's case: batch [A, A, B] over a catalog that held A: B added, A ignored
\* twice, nothing else.
C5_Witness ==
    /\ pc[1] = "done"
    /\ data[1] = <<"A", "A", "B">>
    /\ TitlesAtStart(Movies, log[1]) = {"A"}
    /\ log[1].added = <<Parse("B")>>
    /\ log[1].ignored = <<[reason |-> AlreadyInCollection, data |-> "A"],
                          [reason |-> AlreadyInCollection, data |-> "A"]>>
    /\ log[1].invalid = <<>>
    /\ log[1].failed = <<>>
    /\ log[1].unprocessed = <<>>
    /\ Bucketed(log[1]) = 3

\* C6: fetchMissingAttributes is called only in the step that has just
\* searched the collection and found no equal record, save only once that
\* fetch has returned, and the step that classifies an item as a duplicate
\* is the one that follows parsing: no fetch and no save was called for it.
C6_DuplicateCheckBeforeNetwork ==
    [][\A r \in Frames :
          LET item == data[r][operation[r].current]
              duplicate == \E i \in 1..Len(Movies) : Movies[i].title = item
              ignoredAsDuplicate ==
                  /\ Len(log'[r].ignored) = Len(log[r].ignored) + 1
                  /\ log'[r].ignored[Len(log'[r].ignored)].reason =
                         AlreadyInCollection
          IN  /\ (pc'[r] = "fetch" /\ pc[r] # "fetch") =>
                    pc[r] = "parse" /\ ~duplicate
              /\ (pc'[r] = "save" /\ pc[r] # "save") => pc[r] = "fetch"
              /\ (pc'[r] = "parse" /\ pc[r] # "parse") => pc[r] = "validate"
              /\ (pc'[r] = "validate" /\ pc[r] # "validate") => pc[r] = "frame"
              /\ (Active(r) /\ ignoredAsDuplicate) =>
                    /\ pc[r] = "parse"
                    /\ pc'[r] \in {"frame", "done"}
                    /\ moviesContainer' = moviesContainer
      ]_vars

\* C6's case: an item has just been ignored as a duplicate, after an
\* earlier item of the run was fetched and saved.
C6_Witness ==
    /\ pc[1] = "frame"
    /\ Len(log[1].added) = 1
    /\ Len(log[1].ignored) = 1
    /\ log[1].ignored[1] =
           [reason |-> AlreadyInCollection, data |-> data[1][2]]

\* C7: a validator's UnsuitableMediaError puts the item in ignored with the
\* error's reason, any other MediaValidationError puts it in invalid with
\* the error's reasons, and in both cases nothing else is logged, the item
\* is neither parsed nor persisted and the run goes on; any other error of
\* the validator is recorded neither in ignored nor in invalid, and the item
\* is not parsed either.
C7_ValidationClassified ==
    [][\A r \in Frames : \A e \in ValidateErrors :
          LET item == data[r][operation[r].current] IN
          ValidateRejects(r, e) =>
              /\ pc'[r] \in {"frame", "done"}
              /\ moviesContainer' = moviesContainer
              /\ log'[r].added = log[r].added
              /\ log'[r].unprocessed = log[r].unprocessed
              /\ CASE e.class = "UnsuitableMediaError" ->
                        /\ log'[r].ignored =
                               Append(log[r].ignored,
                                      [reason |-> e.reason, data |-> item])
                        /\ log'[r].invalid = log[r].invalid
                        /\ log'[r].failed = log[r].failed
                   [] e.class = "MediaValidationError" ->
                        /\ log'[r].invalid =
                               Append(log[r].invalid,
                                      [reasons |-> e.reasons, data |-> item])
                        /\ log'[r].ignored = log[r].ignored
                        /\ log'[r].failed = log[r].failed
                   [] OTHER ->
                        /\ log'[r].ignored = log[r].ignored
                        /\ log'[r].invalid = log[r].invalid
              /\ InstanceOfMediaValidationError(e) =>
                    IF operation[r].current < operation[r].total
                       THEN pc'[r] = "frame" /\ importOperation' = r
                       ELSE pc'[r] = "done" /\ importOperation' = 0
      ]_vars

\* C7's case: of three items the first was unsuitable, the second invalid,
\* and the validator crashed on the third.
C7_Witness ==
    /\ pc[1] = "done"
    /\ Len(data[1]) = 3
    /\ log[1].ignored =
           <<[reason |-> UnsuitableMediaError.reason, data |-> data[1][1]]>>
    /\ log[1].invalid =
           <<[reasons |-> MediaValidationError.reasons, data |-> data[1][2]]>>
    /\ log[1].failed = <<[error |-> GenericError, data |-> data[1][3]]>>

\* C8: cancelImport with no run active changes nothing; during a run it
\* sets the cancelled flag of the active operation and nothing else, however
\* often it is called; a flag is only ever set by a cancelImport during the
\* run it belongs to, and a run starts with the flag unset.
C8_CancelIdempotentNoOpWhenIdle ==
    [][/\ (lastCall' = "cancelImport" /\ lastCall # "cancelImport") =>
             /\ UNCHANGED <<moviesContainer, importOperation, pc, data, idx,
                            log, movie>>
             /\ IF importOperation = 0
                   THEN operation' = operation
                   ELSE operation' =
                            [operation EXCEPT
                                 ![importOperation].cancelled = TRUE]
       /\ \A r \in Frames :
             /\ (operation'[r].cancelled # operation[r].cancelled) =>
                   \/ /\ operation'[r].cancelled
                      /\ lastCall' = "cancelImport"
                      /\ importOperation = r
                   \/ /\ ~operation'[r].cancelled
                      /\ lastCall' = "importMovies"
                      /\ pc[r] \in {"idle", "done"}
             /\ (pc[r] \in {"idle", "done"} /\ pc'[r] = "frame") =>
                   /\ ~operation'[r].cancelled
                   /\ importOperation = 0
                   /\ importOperation' = r
      ]_vars

\* C8's case: cancelImport was called with no run active, after an earlier
\* run had finished without being cancelled.
C8_Witness ==
    /\ lastCall = "cancelImport"
    /\ importOperation = 0
    /\ pc[1] = "done"
    /\ ~operation[1].cancelled
    /\ Len(log[1].added) = 1

C10_ContainerBeforeMovies ==
    \A i \in 1..Len(channel) :
        channel[i].kind = "onMovieLoaded" =>
            \/ containers.movies # NULL /\ containers.movies[1].movies # NULL
            \/ \E j \in 1..(i - 1) : channel[j].kind = "onMoviesContainerLoaded"

\* C10's case: two movie-loaded messages, B before A, are about to be
\* handled, and the container is set.
C10_Witness ==
    /\ Len(channel) = 2
    /\ containers.movies # NULL
    /\ containers.movies[1].movies = Some(<<>>)
    /\ channel[1].kind = "onMovieLoaded"
    /\ channel[1].attributes = "B"
    /\ channel[2].kind = "onMovieLoaded"
    /\ channel[2].attributes = "A"

\* C11: the state's movies container changes to a container only in the step
\* of load that follows a loadMedia call which returned, without error and
\* with its run finished (the worker has terminated and every message it
\* posted has been handled); the container committed is the returned one, with
\* every movie of the run, and 'media-loaded' is emitted in that step and in no
\* other.  A load that fails, whatever the error, leaves the container as it
\* was and emits nothing.
C11_LoadedOnlyAfterCompleteRun ==
    [][/\ (moviesContainer' # moviesContainer /\ moviesContainer' # NULL) =>
            /\ mediaPc = "initSoukaiEngine"
            /\ loadPc = "returned"
            /\ error = NULL
            /\ worker.terminated
            /\ channel = <<>>
            /\ returned # NULL
            /\ moviesContainer' = returned[1].movies
            /\ Len(Movies') = worker.posted - 1
            /\ mediaLoaded'
       /\ (mediaLoaded' /\ ~mediaLoaded) =>
            /\ moviesContainer' # NULL
            /\ mediaPc = "initSoukaiEngine"
            /\ mediaPc' = "loaded"
       /\ (mediaPc' = "failed" /\ mediaPc # "failed") =>
            /\ handled' \in {"handleUnauthorized", "handleMalformedDocument",
                              "throw"}
            /\ moviesContainer' = moviesContainer
            /\ ~mediaLoaded'
       /\ mediaLoaded' => mediaPc' = "loaded"]_vars

\* A load has committed a container with a movie; the next load built another
\* container and then failed on a malformed document: the state still holds
\* the container of the first load.
C11_Witness ==
    /\ mediaPc = "failed"
    /\ handled = "handleMalformedDocument"
    /\ ~mediaLoaded
    /\ containers.movies # NULL
    /\ Len(Movies) = 1
    /\ moviesContainer # containers.movies

\* A call is made in this step, of operation op.
Called(c, op) == calls[c].op = "none" /\ calls'[c].op = op

\* C12 as stated: in a session the index document is never fetched a second
\* time.
C12_AtMostOneFetch == fetches <= 1

\* C12: a call of getMoviesContainerUrl made once a result is memoized, null
\* included, fetches nothing and returns the memoized result at once; an index
\* document is fetched only by a call made while no result was memoized, as it
\* is made or once the type index it waited for exists.  The memoized value
\* is assigned only by a resolution whose fetch has resolved, and is what
\* that resolution returns.
C12_MemoizedResultReturnedWithoutFetch ==
    [][/\ fetches' # fetches =>
            \E c \in Calls :
                /\ calls'[c].pc = "fromUrl"
                /\ \/ calls[c].op = "none" /\ moviesContainerUrl = Undefined
                   \/ calls[c].pc = "createTypeIndex"
       /\ \A c \in Calls :
            (Called(c, "getMoviesContainerUrl")
                /\ moviesContainerUrl # Undefined) =>
               /\ calls'[c].pc = "ended"
               /\ lastReturn' = [op |-> "getMoviesContainerUrl",
                                 pc |-> "returned",
                                 result |-> moviesContainerUrl]
               /\ fetches' = fetches
               /\ moviesContainerUrl' = moviesContainerUrl
       /\ moviesContainerUrl' # moviesContainerUrl =>
            /\ moviesContainerUrl' # Undefined
            /\ \E c \in Calls :
                 /\ calls[c].pc = "fromUrl"
                 /\ calls'[c].pc = "ended"
                 /\ lastReturn' = [op |-> "getMoviesContainerUrl",
                                   pc |-> "returned",
                                   result |-> moviesContainerUrl']]_vars

\* Two calls of getMoviesContainerUrl have returned, the last one null, which
\* is memoized, and the index document has been fetched once.
C12_Witness ==
    /\ \A c \in 1..2 : calls[c].op = "getMoviesContainerUrl"
                       /\ calls[c].pc = "ended"
    /\ fetches = 1
    /\ moviesContainerUrl = NULL
    /\ lastReturn = [op |-> "getMoviesContainerUrl", pc |-> "returned",
                     result |-> NULL]

\* Call c, of operation op, takes a step.
Steps(c, op) ==
    /\ calls[c].op = op \/ Called(c, op)
    /\ calls'[c] # calls[c]

\* No subject of the store is typed a type registration, is for the Movie
\* class and has an instance container.
NoMovieRegistration(store) ==
    ~ \E i, j, k \in DOMAIN store :
        /\ store[i].predicate = ExpandIRI("rdfs:type")
        /\ store[i].object = ExpandIRI("solid:TypeRegistration")
        /\ store[j].subject = store[i].subject
        /\ store[j].predicate = ExpandIRI("solid:forClass")
        /\ store[j].object = "https://schema.org/Movie"
        /\ store[k].subject = store[i].subject
        /\ store[k].predicate = ExpandIRI("solid:instanceContainer")

\* C13 as stated: a call of getMoviesContainerUrl writes nothing to the user's
\* storage, no index document included.
C13_ResolutionCreatesNothing ==
    [][\A c \in Calls :
          Steps(c, "getMoviesContainerUrl") =>
              /\ documents' = documents
              /\ podContainers' = podContainers]_vars

\* C13: a call of getMoviesContainerUrl whose fetch finds no registration of
\* the Movie class with an instance container returns null and memoizes it.
\* No step of the call writes a container or changes an index document that
\* exists; the one thing it may write is a new, empty index document, when
\* the user's typeIndexUrl was not set as the call was made.
C13_ResolutionCreatesIndexDocumentOnly ==
    [][\A c \in Calls :
          Steps(c, "getMoviesContainerUrl") =>
              /\ podContainers' = podContainers
              /\ \A u \in DOMAIN documents :
                    u \in DOMAIN documents' /\ documents'[u] = documents[u]
              /\ (Called(c, "getMoviesContainerUrl")
                    /\ calls'[c].pc = "createTypeIndex") =>
                    typeIndexUrl = Undefined /\ documents' = documents
              /\ DOMAIN documents' # DOMAIN documents =>
                    /\ calls[c].pc = "createTypeIndex"
                    /\ \E u \in DOMAIN documents' :
                          /\ DOMAIN documents' = DOMAIN documents \cup {u}
                          /\ documents'[u] = <<>>
                          /\ typeIndexUrl' = Some(u)
              /\ (/\ calls[c].pc = "fromUrl"
                  /\ lastReturn'.pc = "returned"
                  /\ NoMovieRegistration(documents[calls[c].typeIndexUrl[1]])) =>
                    /\ lastReturn'.result = NULL
                    /\ moviesContainerUrl' = NULL]_vars

\* On a user without a type index the first call of getMoviesContainerUrl has
\* returned null: the storage holds a new index document and nothing else.
C13_Witness ==
    /\ calls[1].op = "getMoviesContainerUrl"
    /\ calls[1].pc = "ended"
    /\ calls[2].op = "none"
    /\ lastReturn = [op |-> "getMoviesContainerUrl", pc |-> "returned",
                     result |-> NULL]
    /\ DOMAIN documents = {MintTypeIndexUrl(0)}
    /\ documents[MintTypeIndexUrl(0)] = <<>>
    /\ podContainers = {}

\* Every statement of the documents docs.
AllStatements(docs) ==
    UNION {{docs[u][i] : i \in DOMAIN docs[u]} : u \in DOMAIN docs}

\* The type registrations in docs that are for rdfsClass and point at the
\* container url.
RegistrationsIn(docs, rdfsClass, url) ==
    {st.subject : st \in
        {st \in AllStatements(docs) :
            /\ st.predicate = ExpandIRI("solid:forClass")
            /\ st.object = rdfsClass
            /\ Statement(st.subject, ExpandIRI("rdfs:type"),
                   ExpandIRI("solid:TypeRegistration")) \in AllStatements(docs)
            /\ Statement(st.subject, ExpandIRI("solid:instanceContainer"),
                   url) \in AllStatements(docs)}}

ConfiguredClasses == {"https://schema.org/Movie", "https://schema.org/WatchAction"}

\* C14: createMoviesContainer starts the saves of its type registrations in
\* the step in which the save of the container has resolved, not before: one
\* registration for each configured class, each pointing at the new
\* container, with identifiers that differ from each other and from every
\* subject already in the storage.  A registration is written only by its
\* call, for a container that is saved.  When the call returns, the storage
\* holds exactly one registration of each class pointing at the container
\* returned, and the two are different subjects.
C14_OneRegistrationPerClass ==
    [][\A c \in Calls :
          Steps(c, "createMoviesContainer") =>
              /\ (calls[c].pc = "save" /\ calls'[c].pc = "saveRegistrations") =>
                    /\ documents' = documents
                    /\ calls[c].pending = {}
                    /\ \E url \in podContainers' \ podContainers :
                          /\ calls'[c].container = Some(url)
                          /\ \A r \in calls'[c].pending :
                                r.instanceContainer = url
                    /\ \A rdfsClass \in ConfiguredClasses :
                          Cardinality({r \in calls'[c].pending :
                                          r.forClass = rdfsClass}) = 1
                    /\ Cardinality({r.url : r \in calls'[c].pending}) = 2
                    /\ \A r \in calls'[c].pending :
                          /\ r.document \in DOMAIN documents
                          /\ \A st \in AllStatements(documents) :
                                st.subject # r.url
              /\ (\E u \in DOMAIN documents : documents'[u] # documents[u]) =>
                    \E r \in calls[c].pending :
                        /\ r.instanceContainer \in podContainers
                        /\ documents' =
                               [documents EXCEPT
                                    ![r.document] = @ \o Statements(r)]
              /\ (/\ calls[c].pc # "ended"
                  /\ calls'[c].pc = "ended"
                  /\ lastReturn'.pc = "returned") =>
                    /\ calls[c].pc = "saveRegistrations"
                    /\ lastReturn'.result = calls[c].container
                    /\ lastReturn'.result[1] \in podContainers'
                    /\ \A rdfsClass \in ConfiguredClasses :
                          Cardinality(RegistrationsIn(documents', rdfsClass,
                              lastReturn'.result[1])) = 1
                    /\ Cardinality(UNION {RegistrationsIn(documents', rdfsClass,
                                              lastReturn'.result[1]) :
                                   rdfsClass \in ConfiguredClasses}) = 2]_vars

\* createMoviesContainer has returned the container it saved; its two
\* registrations are in the type index.
C14_Witness ==
    /\ lastReturn.op = "createMoviesContainer"
    /\ lastReturn.pc = "returned"
    /\ lastReturn.result[1] \in podContainers
    /\ \A rdfsClass \in ConfiguredClasses :
          RegistrationsIn(documents, rdfsClass, lastReturn.result[1]) # {}

\* C15: once a call of initMoviesContainer has returned a container (found or
\* created), a call of initMoviesContainer made afterwards does not go into
\* createMoviesContainer.
C15_LaterCallDoesNotCreateAgain ==
    [][\A c \in Calls :
          (Called(c, "initMoviesContainer") /\ remembered # <<>>) =>
              calls'[c].fn # "createMoviesContainer"]_vars

\* The phase of the import pipeline.
Phase ==
    IF importOperation = 0 THEN "Idle"
    ELSE IF operation[importOperation].cancelled THEN "Cancelling"
    ELSE "Running"

PhaseChanges ==
    {<<"Idle", "Running">>, <<"Running", "Idle">>,
     <<"Running", "Cancelling">>, <<"Cancelling", "Idle">>}

\* C16: importOperation is non-null exactly while an invocation of
\* importMovies is suspended in its loop, and then it is that invocation's
\* operation; the pipeline goes from Idle to Running, from Running to Idle or
\* Cancelling, from Cancelling to Idle, and in no other way; whenever
\* importOperation is null a call of importMovies is accepted; and, every
\* awaited step completing, a run that is under way leads to importOperation
\* being null again.
C16_ImportLifecycle ==
    /\ [](/\ importOperation # 0 <=> \E r \in Frames : Active(r)
          /\ importOperation # 0 => Active(importOperation))
    /\ [][Phase' # Phase => <<Phase, Phase'>> \in PhaseChanges]_vars
    /\ [](importOperation = 0 =>
             ENABLED (\E d \in Batches : ImportMovies(d)))
    /\ (importOperation # 0) ~> (importOperation = 0)

\* A run that was cancelled after its first item has ended, leaving items
\* unprocessed, and importOperation is null again.
C16_Witness ==
    /\ importOperation = 0
    /\ \E r \in Frames :
          /\ pc[r] = "done"
          /\ operation[r].cancelled
          /\ operation[r].current = 1
          /\ Len(log[r].unprocessed) = 2

InFlight(r) == pc[r] \in {"validate", "parse", "fetch", "save"}

\* C18: cancellation is observed only at item boundaries.  While an item is
\* in flight it is the item current counts and nothing is unprocessed; with
\* the cancellation flag set, a step of the item either goes on to the item's
\* next await with the log untouched, or ends the item with this item added
\* to one of added, ignored, invalid, failed and nothing to unprocessed, and
\* current unchanged.  A cancelled run that has ended has classified current
\* items and left exactly the items after them unprocessed, none when the
\* cancel came during the last item.
C18_CancelObservedAtItemBoundaries ==
    /\ [](\A r \in Frames :
              /\ InFlight(r) =>
                     /\ operation[r].current = idx[r]
                     /\ Classified(log[r]) = idx[r] - 1
                     /\ log[r].unprocessed = <<>>
              /\ (pc[r] = "done" /\ operation[r].cancelled) =>
                     /\ Classified(log[r]) = operation[r].current
                     /\ log[r].unprocessed =
                            Slice(data[r], operation[r].current)
                     /\ operation[r].current = Len(data[r]) =>
                            log[r].unprocessed = <<>>)
    /\ [][\A r \in Frames :
              (InFlight(r) /\ operation[r].cancelled /\ pc'[r] # pc[r]) =>
                  /\ operation'[r] = operation[r]
                  /\ log'[r].unprocessed = <<>>
                  /\ \/ InFlight(r)' /\ log'[r] = log[r]
                     \/ /\ pc'[r] = IF idx[r] < Len(data[r]) THEN "frame"
                                    ELSE "done"
                        /\ Classified(log'[r]) = Classified(log[r]) + 1
                        /\ \A t \in Titles :
                               BucketOccurrences(log'[r], t) =
                                   BucketOccurrences(log[r], t)
                                   + (IF t = MovieData(r) THEN 1 ELSE 0)]_vars

\* C18's case: cancelImport was called during the last of two items; both
\* are classified and nothing is unprocessed.
C18_Witness ==
    \E r \in Frames :
        /\ pc[r] = "done"
        /\ operation[r].cancelled
        /\ Len(data[r]) = 2
        /\ operation[r].current = 2
        /\ Classified(log[r]) = 2
        /\ log[r].unprocessed = <<>>

\* The index documents createTypeIndex has provisioned.
Provisioned == DOMAIN documents \ {GivenTypeIndexUrl}

\* Some call awaits createTypeIndex.
AwaitsCreateTypeIndex == \E c \in Calls : calls[c].pc = "createTypeIndex"

\* C19 as stated: for any interleaving of getMoviesContainerUrl and
\* createMoviesContainer on one user, at most one index document is
\* provisioned by createTypeIndex, and typeIndexUrl, once set, never changes.
C19_OneIndexDocumentInAnyInterleaving ==
    /\ [](Cardinality(Provisioned) <= 1)
    /\ [][typeIndexUrl # Undefined => typeIndexUrl' = typeIndexUrl]_vars

\* C19, amended: a call goes into createTypeIndex only when it finds
\* typeIndexUrl unset; typeIndexUrl changes only when an awaited
\* createTypeIndex resolves, to the url of the one document then provisioned,
\* and no index document comes into being otherwise; a user given a
\* typeIndexUrl at construction keeps it and provisions nothing; and once
\* typeIndexUrl is set and no call awaits createTypeIndex, typeIndexUrl never
\* changes again, no index document is provisioned and no call goes into
\* createTypeIndex.
C19_IndexDocumentOnlyWhileUnset ==
    /\ [](GivenTypeIndexUrl \in DOMAIN documents =>
              /\ typeIndexUrl = Some(GivenTypeIndexUrl)
              /\ Provisioned = {}
              /\ ~AwaitsCreateTypeIndex)
    /\ [][/\ \A c \in Calls :
                 (calls[c].pc # "createTypeIndex"
                      /\ calls'[c].pc = "createTypeIndex") =>
                     typeIndexUrl = Undefined
          /\ typeIndexUrl' # typeIndexUrl =>
                 /\ \E c \in Calls :
                        /\ calls[c].pc = "createTypeIndex"
                        /\ calls'[c].pc # "createTypeIndex"
                 /\ typeIndexUrl' # Undefined
                 /\ typeIndexUrl'[1] \notin DOMAIN documents
                 /\ DOMAIN documents' =
                        DOMAIN documents \cup {typeIndexUrl'[1]}
          /\ DOMAIN documents' # DOMAIN documents =>
                 typeIndexUrl' # typeIndexUrl
          /\ (typeIndexUrl # Undefined /\ ~AwaitsCreateTypeIndex) =>
                 /\ typeIndexUrl' = typeIndexUrl
                 /\ DOMAIN documents' = DOMAIN documents
                 /\ ~AwaitsCreateTypeIndex']_vars

\* C19's case: the first call has provisioned the index document, and the
\* call made after it has used that document and provisioned none.
C19_Witness ==
    /\ Cardinality(Provisioned) = 1
    /\ typeIndexUrl # Undefined
    /\ typeIndexUrl[1] \in Provisioned
    /\ \A c \in Calls : calls[c].pc = "ended"
    /\ fetches >= 1

\* Position i of store types its subject as a Type Registration.
TypesRegistration(store, i) ==
    /\ store[i].predicate = "http://www.w3.org/1999/02/22-rdf-syntax-ns#type"
    /\ store[i].object = "http://www.w3.org/ns/solid/terms#TypeRegistration"

\* The positions of store where subject declares an instanceContainer.
ContainerPositions(store, subject) ==
    {j \in DOMAIN store :
        /\ store[j].subject = subject
        /\ store[j].predicate =
               "http://www.w3.org/ns/solid/terms#instanceContainer"}

\* subject is registered for the Movie class.
ForMovies(store, subject) ==
    \E j \in DOMAIN store :
        /\ store[j].subject = subject
        /\ store[j].predicate = "http://www.w3.org/ns/solid/terms#forClass"
        /\ store[j].object = "https://schema.org/Movie"

\* The positions of store whose subject is a matching registration.
MatchPositions(store) ==
    {i \in DOMAIN store :
        /\ TypesRegistration(store, i)
        /\ ForMovies(store, store[i].subject)
        /\ ContainerPositions(store, store[i].subject) # {}}

\* The least of a non-empty set of positions.
First(positions) == CHOOSE i \in positions : \A j \in positions : i <= j

\* The instanceContainer of the first matching registration, or NULL.
FirstMatch(store) ==
    IF MatchPositions(store) = {} THEN NULL
    ELSE Some(store[First(ContainerPositions(store,
                  store[First(MatchPositions(store))].subject))].object)

\* C20: the resolver returns the instanceContainer of the first matching
\* registration: among the subjects typed as Type Registration, in store
\* order, the first whose forClass is the Movie class and which declares an
\* instanceContainer, and of that subject the first instanceContainer value;
\* subjects lacking either statement are skipped, and null is returned only
\* when no subject has both.  This is what getMoviesContainerUrl memoizes and
\* what it returns.
C20_FirstMatchingRegistration ==
    LET store == documents[GivenTypeIndexUrl] IN
    /\ moviesContainerUrl # Undefined => moviesContainerUrl = FirstMatch(store)
    /\ lastReturn.pc = "returned" =>
           /\ lastReturn.result = FirstMatch(store)
           /\ lastReturn.result = NULL <=> MatchPositions(store) = {}

\* C20's case: both subjects are matching registrations, #b is typed before
\* #a although #a names its container first, and the resolver has returned
\* the container of #b.
C20_Witness ==
    LET store == documents[GivenTypeIndexUrl] IN
    /\ lastReturn.pc = "returned"
    /\ lastReturn.result = Some("/b/")
    /\ Cardinality({store[i].subject : i \in MatchPositions(store)}) = 2
    /\ store[1].subject = "#a"
    /\ store[1].object = "/a/"

\* C21: a MalformedDocument error during load is never retried automatically
\* and never changes the persisted ignore-list by itself.  The catch block of
\* load leaves the list and the loader as they are and, for a malformed
\* document, shows the crash report of that error; loadMedia is started only
\* by a call of load, with the stored list as its ignoredDocumentUrls; and
\* the list changes only when the user chooses 'Ignore this document', which
\* puts the url of the reported document after all earlier entries, or by
\* unload, which empties it.
C21_IgnoreListGrowsOnlyByChoice ==
    [][/\ (mediaPc = "loadMedia" /\ mediaPc' = "failed") =>
            /\ storage' = storage
            /\ loadPc' = loadPc
            /\ params' = params
            /\ thrown[1].class = "MalformedDocumentError" =>
                   /\ handled' = "handleMalformedDocument"
                   /\ crashReport' = thrown
       /\ (loadPc' = "running" /\ loadPc # "running") =>
            /\ mediaPc \in {"idle", "loaded", "failed"}
            /\ mediaPc' = "loadMedia"
            /\ storage' = storage
            /\ params'.ignoredDocumentUrls =
                   IF storage = NULL THEN <<>> ELSE storage[1]
       /\ storage' # storage =>
            \/ /\ crashReport # NULL
               /\ storage' =
                      Some(Append(IF storage = NULL THEN <<>> ELSE storage[1],
                               crashReport[1].documentUrl))
               /\ mediaPc' = "idle"
               /\ loadPc' = "idle"
               /\ crashReport' = NULL
            \/ /\ storage' = NULL
               /\ moviesContainer' = NULL
               /\ UNCHANGED <<mediaPc, loadPc, crashReport>>]_vars

\* C21's case: the user has ignored /movies/a and then /movies/b, and the
\* load made after that has passed both to loadMedia.
C21_Witness ==
    /\ storage = Some(<<"/movies/a", "/movies/b">>)
    /\ mediaPc = "loadMedia"
    /\ loadPc = "running"
    /\ params.ignoredDocumentUrls = <<"/movies/a", "/movies/b">>

\* The member records of a container of the loader (none before the
\* container-loaded message).
Members(loaded) ==
    IF loaded.movies = NULL \/ loaded.movies[1].movies = NULL THEN <<>>
    ELSE loaded.movies[1].movies[1]

\* The record a movie-loaded message carries: the movie with its own
\* actions.
Record(message) ==
    [title |-> message.attributes,
     actions |-> Some([i \in 1..Len(message.actionsAttributes) |->
                          [object |-> message.actionsAttributes[i]]])]

\* The runner handles the message at the head of the channel in this step.
Handles(kind) ==
    /\ Arrived(kind)
    /\ channel' = Tail(channel)
    /\ loadPc' = loadPc

\* C22: in a loader run the container-loaded message sets the container with
\* an empty member list, and each movie-loaded message makes the list the old
\* list with one record at its end, the movie of the message with the actions
\* of the message; the list changes in no other way within a run.  So the
\* list holds one record per movie-loaded message handled, in arrival order,
\* no record in it is ever without its actions, and the container loadMedia
\* returns after n movie-loaded messages holds exactly n records.
C22_OneRecordPerMovieMessage ==
    /\ [](/\ containers.movies # NULL => containers.movies[1].movies # NULL
          /\ \A i \in 1..Len(Members(containers)) :
                 Members(containers)[i].actions # NULL
          /\ returned # NULL =>
                 /\ returned[1] = containers
                 /\ returned[1].movies = NULL => worker.posted = 0
                 /\ returned[1].movies # NULL =>
                        Len(Members(returned[1])) = worker.posted - 1)
    /\ [][/\ Handles("onMoviesContainerLoaded") =>
                /\ containers'.movies # NULL
                /\ containers'.movies[1].movies = Some(<<>>)
          /\ Handles("onMovieLoaded") =>
                /\ containers.movies # NULL
                /\ containers'.movies # NULL
                /\ containers'.movies[1].url = containers.movies[1].url
                /\ Members(containers') =
                       Append(Members(containers), Record(Head(channel)))
          /\ containers' # containers =>
                \/ Handles("onMoviesContainerLoaded")
                \/ Handles("onMovieLoaded")
                \/ /\ loadPc # "running"
                   /\ loadPc' = "running"
                   /\ containers' = [movies |-> NULL]]_vars

\* C22's case: the run posted the container and two movies, B with an action
\* and then A with none; loadMedia has returned the container with B and A in
\* that order, each with its actions.
C22_Witness ==
    /\ returned # NULL
    /\ Members(returned[1]) =
           <<[title |-> "B", actions |-> Some(<<[object |-> "watched"]>>)],
             [title |-> "A", actions |-> Some(<<>>)]>>

====
